---- MODULE Spec2Model ----
(***************************************************************************)
(* Model of the HACE digest subsystem of aspeed-rust: the hash context     *)
(* record, the owned digest operations, the multi-context provider and the *)
(* SessionManager built on them.                                           *)
(*                                                                         *)
(* Bytes are integers 0..255.  The 256-byte buffer of a context is kept as *)
(* the sequence of its bytes with the trailing zero bytes removed (a       *)
(* canonical form of the full array).  The 64-byte digest accumulator is   *)
(* kept as the value the engine has computed: the initialisation vector it *)
(* started from and the bytes it has absorbed since (an injective hash).   *)
(* A u32 or u64 counter is kept as its big-endian bytes, so that it wraps  *)
(* at its own width.  Bit 31 of a scatter-gather length word (the LAST     *)
(* flag, HACE_SG_LAST) is kept apart from its low 31 bits.                 *)
(*                                                                         *)
(* digest/hace_controller.rs is not among the source files.  The context   *)
(* record, HashAlgo, the command constants, copy_iv_to_digest,             *)
(* start_hash_operation and fill_padding are taken from hash.rs, which     *)
(* defines them for the earlier Controller; with_provider,                 *)
(* ctx_mut_unchecked and cleanup_context are modelled from their use in    *)
(* digest/hash_owned.rs and digest/session.rs.                             *)
(***************************************************************************)
EXTENDS Integers, Sequences, FiniteSets, TLC

\* ------------------------------------------------------------------ bounds

\* Largest const parameter N of SessionManager<N> that is explored.
MaxN == 2

\* Number of session variables the caller holds (s1, s2, ... of the tests).
MaxCallers == 2

\* Largest number of update calls made on one session.
MaxUpdates == 2

\* Largest value of the manager's next_id counter that is explored.
MaxInits == 2

\* Largest const parameter N that SessionManager::<N>::new is called with.
MaxNewN == 9

\* Largest max_sessions given to MultiContextProvider::new in the provider
\* programs, and the largest id handed to set_active_session and
\* release_session there.
MaxSlots == 2

\* ------------------------------------------------------- program constants

\* multi_context.rs: pub const MAX_SESSIONS: usize = 4
PROVIDER_MAX_SESSIONS == 4

\* session.rs: pub const MAX_SESSIONS: usize = 8
MAX_SESSIONS == 8

\* hash.rs: pub buffer: [u8; 256]
BUFFER_SIZE == 256

\* hash.rs: HACE_SHA_BE_EN | HACE_SG_EN | HACE_CMD_ACC_MODE = (1<<3)|(1<<18)|(1<<8)
HACE_SG_EN == 262144

COMMON_FLAGS == 262408

Algos == {"SHA256", "SHA384", "SHA512"}

\* HashAlgo::block_size
block_size(algo) == IF algo = "SHA256" THEN 64 ELSE 128

\* HashAlgo::digest_size
digest_size(algo) == CASE algo = "SHA256" -> 32 [] algo = "SHA384" -> 48 [] OTHER -> 64

\* HashAlgo::bitmask
bitmask(algo) == CASE algo = "SHA256" -> 80 [] algo = "SHA384" -> 1120 [] OTHER -> 96

\* HashAlgo::hash_cmd
hash_cmd(algo) == COMMON_FLAGS + bitmask(algo)

\* ----------------------------------------------------------------- helpers

Some(x) == <<x>>

None == <<>>

IsSome(o) == Len(o) = 1

Rep(b, n) == [i \in 1..n |-> b]

RECURSIVE Trim(_)
Trim(s) == IF s # <<>> /\ s[Len(s)] = 0 THEN Trim(SubSeq(s, 1, Len(s) - 1)) ELSE s

\* buffer[start .. start+n) of the 256-byte array
BufRead(buf, start, n) ==
    LET Read(b, lb) == [i \in 1..n |-> IF start + i <= lb THEN b[start + i] ELSE 0] \o <<>>
    IN Read(buf, Len(buf))

\* buffer[start .. start+Len(bytes)).copy_from_slice(bytes)
BufWrite(buf, start, bytes) ==
    LET Write(lb, ly) ==
            Trim([i \in 1..(IF lb > start + ly THEN lb ELSE start + ly) |->
                     IF i > start /\ i <= start + ly THEN bytes[i - start]
                     ELSE IF i <= lb THEN buf[i] ELSE 0] \o <<>>)
    IN Write(Len(buf), Len(bytes))

RECURSIVE Flatten(_)
Flatten(ss) == IF ss = <<>> THEN <<>> ELSE Head(ss) \o Flatten(Tail(ss))

\* A fixed-width unsigned integer as its big-endian bytes (to_be_bytes).
RECURSIVE BEBytes(_, _)
BEBytes(x, n) == IF n = 0 THEN <<>> ELSE Append(BEBytes(x \div 256, n - 1), x % 256)

U32Of(x) == BEBytes(x, 4)

U64Of(x) == BEBytes(x, 8)

\* bytes + n at the width of bytes: the wrapped sum and the carry out of it
RECURSIVE AddBE(_, _)
AddBE(bytes, n) ==
    IF bytes = <<>> THEN [sum |-> <<>>, carry |-> n]
    ELSE LET last == bytes[Len(bytes)] + n
             rest == AddBE(SubSeq(bytes, 1, Len(bytes) - 1), last \div 256)
         IN [sum |-> Append(rest.sum, last % 256), carry |-> rest.carry]

\* bytes << 3 at the width of bytes, and the three bits shifted out (bytes >> (w-3))
RECURSIVE Shl3BE(_)
Shl3BE(bytes) ==
    IF bytes = <<>> THEN [val |-> <<>>, out |-> 0]
    ELSE LET rest == Shl3BE(Tail(bytes))
             v == bytes[1] * 8 + rest.out
         IN [val |-> <<v % 256>> \o rest.val, out |-> v \div 256]

\* u32::wrapping_add
wrapping_add(bytes, n) == AddBE(bytes, n).sum

\* ------------------------------------------------------ hash context record

ZeroDigest == [iv |-> "zero", absorbed |-> <<>>, cmds |-> {}]

\* AspeedSg::default
ZeroSg == [len |-> 0, last |-> FALSE, addr |-> "null"]

\* AspeedHashContext::default.  iv_size and the HMAC fields (key, key_len,
\* ipad, opad) are the further fields save_hw_to_slot and load_slot_to_hw copy;
\* key, ipad and opad are byte arrays kept like the buffer.
DefaultCtx ==
    [sg |-> <<ZeroSg, ZeroSg>>, digest |-> ZeroDigest, method |-> 0,
     block_size |-> 0, digcnt |-> <<U64Of(0), U64Of(0)>>, bufcnt |-> 0,
     buffer |-> <<>>, iv_size |-> 0, key |-> <<>>, key_len |-> 0,
     ipad |-> <<>>, opad |-> <<>>]

\* ------------------------------------------------- multi-context provider

SlotIds == 0..(PROVIDER_MAX_SESSIONS - 1)

\* MultiContextProvider::new: Ok(provider) or Err (None)
MultiContextProvider_new(max_sessions) ==
    IF max_sessions = 0 \/ max_sessions > PROVIDER_MAX_SESSIONS THEN None
    ELSE Some([contexts |-> [i \in SlotIds |-> None],
               allocated |-> [i \in SlotIds |-> FALSE],
               active_id |-> 0,
               last_loaded |-> None,
               max_sessions |-> max_sessions])

\* The last id below max_sessions that is not allocated.
LastUnallocated(p) ==
    LET free == {i \in SlotIds : i < p.max_sessions /\ ~p.allocated[i]}
    IN IF free = {} THEN None
       ELSE Some(CHOOSE i \in free : \A j \in free : i >= j)

\* The slot the loop of allocate_session stops at: the first id below
\* max_sessions that is not allocated.
FirstUnallocated(p) ==
    LET free == {i \in SlotIds : i < p.max_sessions /\ ~p.allocated[i]}
    IN IF free = {} THEN None
       ELSE Some(CHOOSE i \in free : \A j \in free : i <= j)

\* MultiContextProvider::allocate_session: [p, id] with id = None on Err
allocate_session(p) ==
    LET id == FirstUnallocated(p)
    IN IF id = None THEN [p |-> p, id |-> None]
       ELSE [p |-> [p EXCEPT !.allocated[id[1]] = TRUE,
                             !.contexts[id[1]] = Some(DefaultCtx)],
             id |-> id]

\* A release_session that leaves the session allocated.
release_session_skipped(p, session_id) == p

\* MultiContextProvider::release_session
release_session(p, session_id) ==
    IF session_id \in SlotIds /\ session_id < p.max_sessions /\ p.allocated[session_id]
    THEN [p EXCEPT !.allocated[session_id] = FALSE,
                   !.contexts[session_id] = Some(DefaultCtx),
                   !.last_loaded = IF p.last_loaded = Some(session_id) THEN None
                                   ELSE p.last_loaded]
    ELSE p

\* MultiContextProvider::set_active_session (the debug assertions aside)
set_active_session(p, session_id) == [p EXCEPT !.active_id = session_id]

\* MultiContextProvider::is_session_allocated
is_session_allocated(p, session_id) ==
    session_id < p.max_sessions /\ session_id \in SlotIds /\ p.allocated[session_id]

\* A save_hw_to_slot that leaves the buffer of the slot as it was.
save_hw_to_slot_without_buffer(p, hw, slot_id) ==
    IF slot_id >= p.max_sessions THEN [p |-> p, err |-> "SessionOutOfBounds"]
    ELSE IF ~(slot_id \in SlotIds /\ p.allocated[slot_id])
    THEN [p |-> p, err |-> "SessionNotAllocated"]
    ELSE [p |-> [p EXCEPT !.contexts[slot_id] =
                    Some([hw EXCEPT !.buffer = p.contexts[slot_id][1].buffer])],
          err |-> "Ok"]

\* MultiContextProvider::save_hw_to_slot: [p, err]
save_hw_to_slot(p, hw, slot_id) ==
    IF slot_id >= p.max_sessions THEN [p |-> p, err |-> "SessionOutOfBounds"]
    ELSE IF ~(slot_id \in SlotIds /\ p.allocated[slot_id])
    THEN [p |-> p, err |-> "SessionNotAllocated"]
    ELSE LET saved == p.contexts[slot_id][1]
         IN [p |-> [p EXCEPT !.contexts[slot_id] =
                        Some([saved EXCEPT !.digest = hw.digest,
                                           !.digcnt = hw.digcnt,
                                           !.bufcnt = hw.bufcnt,
                                           !.buffer = hw.buffer,
                                           !.method = hw.method,
                                           !.block_size = hw.block_size,
                                           !.iv_size = hw.iv_size,
                                           !.key = hw.key,
                                           !.key_len = hw.key_len,
                                           !.ipad = hw.ipad,
                                           !.opad = hw.opad,
                                           !.sg = hw.sg])],
             err |-> "Ok"]

\* MultiContextProvider::load_slot_to_hw: [hw, err]
load_slot_to_hw(p, hw, slot_id) ==
    IF slot_id >= p.max_sessions THEN [hw |-> hw, err |-> "SessionOutOfBounds"]
    ELSE IF ~(slot_id \in SlotIds /\ p.allocated[slot_id])
    THEN [hw |-> hw, err |-> "SessionNotAllocated"]
    ELSE LET saved == p.contexts[slot_id][1]
         IN [hw |-> [hw EXCEPT !.digest = saved.digest,
                               !.digcnt = saved.digcnt,
                               !.bufcnt = saved.bufcnt,
                               !.buffer = saved.buffer,
                               !.method = saved.method,
                               !.block_size = saved.block_size,
                               !.iv_size = saved.iv_size,
                               !.key = saved.key,
                               !.key_len = saved.key_len,
                               !.ipad = saved.ipad,
                               !.opad = saved.opad,
                               !.sg = saved.sg],
             err |-> "Ok"]

\* A ctx_mut that saves and loads on every call.
ctx_mut_eager(p, hw) ==
    LET Load(p1) == [p |-> [p1 EXCEPT !.last_loaded = Some(p1.active_id)],
                     hw |-> load_slot_to_hw(p1, hw, p1.active_id).hw]
    IN Load(IF p.last_loaded # None
            THEN save_hw_to_slot(p, hw, p.last_loaded[1]).p
            ELSE p)

\* A ctx_mut that loads the active slot before it saves the resident one.
ctx_mut_load_first(p, hw) ==
    LET Save(hw1) == [p |-> [(IF p.last_loaded # None
                              THEN save_hw_to_slot(p, hw1, p.last_loaded[1]).p
                              ELSE p) EXCEPT !.last_loaded = Some(p.active_id)],
                      hw |-> hw1]
    IN IF p.last_loaded # Some(p.active_id)
       THEN Save(load_slot_to_hw(p, hw, p.active_id).hw)
       ELSE [p |-> p, hw |-> hw]

\* <MultiContextProvider as HaceContextProvider>::ctx_mut: the lazy switch.
\* [p, hw]: the provider after the call and the shared context it hands out.
ctx_mut(p, hw) ==
    LET Load(p1) == [p |-> [p1 EXCEPT !.last_loaded = Some(p1.active_id)],
                     hw |-> load_slot_to_hw(p1, hw, p1.active_id).hw]
    IN IF p.last_loaded # Some(p.active_id)
       THEN Load(IF p.last_loaded # None
                 THEN save_hw_to_slot(p, hw, p.last_loaded[1]).p
                 ELSE p)
       ELSE [p |-> p, hw |-> hw]

\* ------------------------------------------------------ hardware controller

\* SingleContextProvider: a unit struct
SingleContextProvider == [single |-> TRUE]

\* <SingleContextProvider as HaceContextProvider>::ctx_mut: the shared context
Single_ctx_mut(p, hw) == [p |-> p, hw |-> hw]

\* HaceController::with_provider
with_provider(owner, provider) ==
    [algo |-> "SHA256", provider |-> provider, owner |-> owner]

\* HaceController::new: a controller with the single-context provider
HaceController_new(owner) == with_provider(owner, SingleContextProvider)

\* HaceController::ctx_mut_unchecked: the provider's context, switched in.
\* A machine k is [ctrl, hw]: a controller and the shared hardware context.
ctx_mut_unchecked(k) ==
    LET Handed(r) == [ctrl |-> [k.ctrl EXCEPT !.provider = r.p], hw |-> r.hw]
    IN IF "single" \in DOMAIN k.ctrl.provider
       THEN Handed(Single_ctx_mut(k.ctrl.provider, k.hw))
       ELSE Handed(ctx_mut(k.ctrl.provider, k.hw))

\* copy_iv_to_digest
copy_iv_to_digest(algo, ctx) ==
    [ctx EXCEPT !.digest = [iv |-> algo, absorbed |-> <<>>, cmds |-> {}]]

\* The bytes one scatter-gather descriptor names.
SgBytes(d, ctx, data) ==
    IF d.addr = "buffer" THEN BufRead(ctx.buffer, 0, d.len)
    ELSE IF d.addr = "data" THEN [i \in 1..d.len |-> IF i <= Len(data) THEN data[i] ELSE 0]
    ELSE Rep(0, d.len)

\* The engine: it reads the source (the scatter-gather list up to the
\* descriptor flagged last, or len bytes of the buffer) and folds it into the
\* digest accumulator with the algorithm of the command word.
HashEngine(ctx, data, len) ==
    LET bytes == IF (ctx.method \div HACE_SG_EN) % 2 = 1
                 THEN IF ctx.sg[1].last THEN SgBytes(ctx.sg[1], ctx, data)
                      ELSE SgBytes(ctx.sg[1], ctx, data) \o SgBytes(ctx.sg[2], ctx, data)
                 ELSE BufRead(ctx.buffer, 0, len)
    IN [ctx EXCEPT !.digest = [iv |-> ctx.digest.iv,
                               absorbed |-> ctx.digest.absorbed \o bytes,
                               cmds |-> ctx.digest.cmds \cup {ctx.method}]]

\* start_hash_operation: program the registers, start, wait for completion
start_hash_operation(ctx, data, len) == HashEngine(ctx, data, len)

\* A padding that always ends in the block of the pending bytes.
fill_padding_one_block(ctx, remaining) ==
    [ctx EXCEPT !.buffer = BufWrite(BufWrite(@, ctx.bufcnt, <<128>>), ctx.block_size - 8,
                                    Shl3BE(ctx.digcnt[1]).val),
                !.bufcnt = ctx.block_size]

\* A padding whose length field leaves out the bits shifted out of digcnt[0].
fill_padding_without_carried_bits(ctx, remaining) ==
    LET index == (ctx.bufcnt + remaining) % ctx.block_size
        last == IF ctx.block_size = 64 THEN 56 ELSE 112
        padlen == IF index < last THEN last - index ELSE ctx.block_size + last - index
        field == IF ctx.block_size = 64 THEN Shl3BE(ctx.digcnt[1]).val
                 ELSE Shl3BE(ctx.digcnt[2]).val \o Shl3BE(ctx.digcnt[1]).val
    IN [ctx EXCEPT !.buffer = BufWrite(BufWrite(BufWrite(@, ctx.bufcnt, <<128>>),
                                                ctx.bufcnt + 1, Rep(0, padlen - 1)),
                                       ctx.bufcnt + padlen, field),
                   !.bufcnt = ctx.bufcnt + padlen + Len(field)]

\* fill_padding
fill_padding(ctx, remaining) ==
    LET bs == ctx.block_size
        bufcnt == ctx.bufcnt
        index == IF bs = 0 THEN bufcnt + remaining ELSE (bufcnt + remaining) % bs
        padlen == IF bs = 64
                  THEN (IF index < 56 THEN 56 - index ELSE 64 + 56 - index)
                  ELSE (IF index < 112 THEN 112 - index ELSE 128 + 112 - index)
        b1 == BufWrite(ctx.buffer, bufcnt, <<128>>)
        b2 == BufWrite(b1, bufcnt + 1, Rep(0, padlen - 1))
        sh == Shl3BE(ctx.digcnt[1])
        low == sh.val
        high == AddBE(Shl3BE(ctx.digcnt[2]).val, sh.out).sum
    IN IF bs = 64
       THEN [ctx EXCEPT !.buffer = BufWrite(b2, bufcnt + padlen, low),
                        !.bufcnt = bufcnt + padlen + 8]
       ELSE [ctx EXCEPT !.buffer = BufWrite(BufWrite(b2, bufcnt + padlen, high),
                                            bufcnt + padlen + 8, low),
                        !.bufcnt = bufcnt + padlen + 16]

\* ContextCleanup::cleanup_context
cleanup_context(k) ==
    [ctx_mut_unchecked(k) EXCEPT !.hw.bufcnt = 0, !.hw.buffer = <<>>,
                                 !.hw.digest = ZeroDigest,
                                 !.hw.digcnt = <<U64Of(0), U64Of(0)>>]

\* ------------------------------------------------------- owned digest API

\* An init that goes on from the digest accumulator it finds.
Owned_init_resuming(k, algo) ==
    [ctx_mut_unchecked([k EXCEPT !.ctrl.algo = algo]) EXCEPT
        !.hw.method = hash_cmd(algo), !.hw.block_size = block_size(algo),
        !.hw.bufcnt = 0, !.hw.digcnt = <<U64Of(0), U64Of(0)>>]

\* <HaceController as DigestInit>::init
Owned_init(k, algo) ==
    [ctx_mut_unchecked([k EXCEPT !.ctrl.algo = algo]) EXCEPT !.hw =
        [copy_iv_to_digest(algo, [@ EXCEPT !.method = hash_cmd(algo)])
            EXCEPT !.block_size = block_size(algo),
                   !.bufcnt = 0,
                   !.digcnt = <<U64Of(0), U64Of(0)>>]]

\* An update that only ever appends to the buffer.
Owned_update_buffering(k, data) ==
    [ctx_mut_unchecked(k) EXCEPT !.hw.buffer = BufWrite(@, k.hw.bufcnt, data),
                                 !.hw.bufcnt = @ + Len(data)]

\* An update that adds the input length to digcnt[0] and drops the carry.
Owned_update_no_carry(k, data) ==
    [Owned_update_buffering(k, data) EXCEPT
        !.hw.digcnt = <<AddBE(@[1], Len(data)).sum, @[2]>>]

\* An update that hands the buffered bytes and the whole input to the engine.
Owned_update_unbuffered(k, data) ==
    [ctx_mut_unchecked(k) EXCEPT
        !.hw.digest.absorbed = @ \o BufRead(k.hw.buffer, 0, k.hw.bufcnt) \o data,
        !.hw.bufcnt = 0]

\* An update that writes every input at the start of the buffer.
Owned_update_overwriting(k, data) ==
    [ctx_mut_unchecked(k) EXCEPT
        !.hw.buffer = BufWrite(@, 0, data),
        !.hw.bufcnt = @ + Len(data),
        !.hw.digcnt = <<AddBE(@[1], Len(data)).sum, @[2]>>]

\* An update that also keeps in the buffer an input that fills it to exactly one
\* block.
Owned_update_keeping_full_block(k, data) ==
    LET input_len == Len(data)
        Carried(add, digcnt) ==
            <<add.sum, IF add.carry # 0 THEN AddBE(digcnt[2], 1).sum ELSE digcnt[2]>>
        Remainder(c4, remaining, total_len) ==
            IF remaining # 0
            THEN [c4 EXCEPT !.buffer =
                     BufWrite(@, 0, SubSeq(data, (total_len - c4.bufcnt) + 1,
                                                 (total_len - c4.bufcnt) + remaining)),
                            !.bufcnt = remaining]
            ELSE [c4 EXCEPT !.bufcnt = 0]
        DataSg(c2, total_len) ==
            IF total_len # c2.bufcnt
            THEN [c2 EXCEPT !.sg[IF c2.bufcnt # 0 THEN 2 ELSE 1] =
                     [addr |-> "data", len |-> total_len - c2.bufcnt, last |-> TRUE]]
            ELSE c2
        BufferSg(c1, total_len) ==
            IF c1.bufcnt # 0
            THEN [c1 EXCEPT !.sg[1] =
                     IF total_len = c1.bufcnt
                     THEN [addr |-> "data", len |-> c1.bufcnt, last |-> TRUE]
                     ELSE [addr |-> "buffer", len |-> c1.bufcnt, last |-> FALSE]]
            ELSE c1
        Blocks(c1, remaining) ==
            Remainder(start_hash_operation(
                          DataSg(BufferSg(c1, (input_len + c1.bufcnt) - remaining),
                                 (input_len + c1.bufcnt) - remaining),
                          data, (input_len + c1.bufcnt) - remaining),
                      remaining, (input_len + c1.bufcnt) - remaining)
        Fed(c1) ==
            IF c1.bufcnt + input_len <= c1.block_size
            THEN [c1 EXCEPT !.buffer = BufWrite(@, c1.bufcnt, data),
                            !.bufcnt = c1.bufcnt + input_len]
            ELSE Blocks(c1, IF c1.block_size = 0 THEN 0
                            ELSE (input_len + c1.bufcnt) % c1.block_size)
    IN [ctx_mut_unchecked(k) EXCEPT !.hw =
           Fed([@ EXCEPT !.digcnt = Carried(AddBE(@[1], input_len), @)])]

\* <OwnedDigestContext as DigestOp>::update
Owned_update(k, data) ==
    LET input_len == Len(data)
        \* digcnt[0].overflowing_add(input_len), the carry into digcnt[1]
        Carried(add, digcnt) ==
            <<add.sum, IF add.carry # 0 THEN AddBE(digcnt[2], 1).sum ELSE digcnt[2]>>
        \* what is left in the buffer after the engine has run
        Remainder(c4, remaining, total_len) ==
            IF remaining # 0
            THEN [c4 EXCEPT !.buffer =
                     BufWrite(@, 0, SubSeq(data, (total_len - c4.bufcnt) + 1,
                                                 (total_len - c4.bufcnt) + remaining)),
                            !.bufcnt = remaining]
            ELSE [c4 EXCEPT !.bufcnt = 0]
        \* the descriptor of the input data
        DataSg(c2, total_len) ==
            IF total_len # c2.bufcnt
            THEN [c2 EXCEPT !.sg[IF c2.bufcnt # 0 THEN 2 ELSE 1] =
                     [addr |-> "data", len |-> total_len - c2.bufcnt, last |-> TRUE]]
            ELSE c2
        \* the descriptor of the buffered bytes
        BufferSg(c1, total_len) ==
            IF c1.bufcnt # 0
            THEN [c1 EXCEPT !.sg[1] =
                     IF total_len = c1.bufcnt
                     THEN [addr |-> "data", len |-> c1.bufcnt, last |-> TRUE]
                     ELSE [addr |-> "buffer", len |-> c1.bufcnt, last |-> FALSE]]
            ELSE c1
        Blocks(c1, remaining) ==
            Remainder(start_hash_operation(
                          DataSg(BufferSg(c1, (input_len + c1.bufcnt) - remaining),
                                 (input_len + c1.bufcnt) - remaining),
                          data, (input_len + c1.bufcnt) - remaining),
                      remaining, (input_len + c1.bufcnt) - remaining)
        Fed(c1) ==
            IF c1.bufcnt + input_len < c1.block_size
            THEN [c1 EXCEPT !.buffer = BufWrite(@, c1.bufcnt, data),
                            !.bufcnt = c1.bufcnt + input_len]
            ELSE Blocks(c1, IF c1.block_size = 0 THEN 0
                            ELSE (input_len + c1.bufcnt) % c1.block_size)
    IN [ctx_mut_unchecked(k) EXCEPT !.hw =
           Fed([@ EXCEPT !.digcnt = Carried(AddBE(@[1], input_len), @)])]

\* A finalize that leaves the last flag off its descriptor.
Owned_finalize_unflagged(k) ==
    LET Hashed(k1, c3) ==
            [k |-> cleanup_context([k1 EXCEPT !.hw = c3]),
             output |-> [len |-> digest_size(k1.ctrl.algo), value |-> c3.digest],
             sent |-> <<[sg |-> c3.sg, len |-> c3.bufcnt]>>]
        Last(c1) == [c1 EXCEPT !.sg[1] = [addr |-> "buffer", len |-> c1.bufcnt,
                                          last |-> FALSE]]
        Padded(k1, c2) == Hashed(k1, start_hash_operation(c2, <<>>, c2.bufcnt))
        Switched(k1) == Padded(k1, Last(fill_padding(k1.hw, 0)))
    IN Switched(ctx_mut_unchecked(k))

\* <OwnedDigestContext as DigestOp>::finalize: [k, output, sent]; sent is the
\* descriptor list and the length handed to start_hash_operation
Owned_finalize(k) ==
    LET Hashed(k1, c3) ==
            [k |-> cleanup_context([k1 EXCEPT !.hw = c3]),
             output |-> [len |-> digest_size(k1.ctrl.algo), value |-> c3.digest],
             sent |-> <<[sg |-> c3.sg, len |-> c3.bufcnt]>>]
        Last(c1) == [c1 EXCEPT !.sg[1] = [addr |-> "buffer", len |-> c1.bufcnt,
                                          last |-> TRUE]]
        Padded(k1, c2) == Hashed(k1, start_hash_operation(c2, <<>>, c2.bufcnt))
        Switched(k1) == Padded(k1, Last(fill_padding(k1.hw, 0)))
    IN Switched(ctx_mut_unchecked(k))

\* A cancel that only gives the controller back.
Owned_cancel_without_cleanup(k) == ctx_mut_unchecked(k)

\* OwnedDigestContext::cancel
Owned_cancel(k) == cleanup_context(k)

\* ------------------------------------------- scoped digest API (hash.rs)

\* <Controller as DigestInit>::init
Scoped_init(k, algo) ==
    [k EXCEPT !.ctrl.algo = algo,
              !.hw = [copy_iv_to_digest(algo, [@ EXCEPT !.method = hash_cmd(algo)])
                         EXCEPT !.block_size = block_size(algo),
                                !.bufcnt = 0,
                                !.digcnt = <<U64Of(0), U64Of(0)>>]]

\* <OpContextImpl as DigestOp>::update
Scoped_update(k, data) ==
    LET input_len == Len(data)
        Carried(add, digcnt) ==
            <<add.sum, IF add.carry # 0 THEN AddBE(digcnt[2], 1).sum ELSE digcnt[2]>>
        \* bufcnt is assigned only when bytes are left over
        Remainder(c4, remaining, total_len) ==
            IF remaining # 0
            THEN [c4 EXCEPT !.buffer =
                     BufWrite(@, 0, SubSeq(data, (total_len - c4.bufcnt) + 1,
                                                 (total_len - c4.bufcnt) + remaining)),
                            !.bufcnt = remaining]
            ELSE c4
        DataSg(c2, total_len) ==
            IF total_len # c2.bufcnt
            THEN [c2 EXCEPT !.sg[IF c2.bufcnt # 0 THEN 2 ELSE 1] =
                     [addr |-> "data", len |-> total_len - c2.bufcnt, last |-> TRUE]]
            ELSE c2
        BufferSg(c1, total_len) ==
            IF c1.bufcnt # 0
            THEN [c1 EXCEPT !.sg[1] =
                     IF total_len = c1.bufcnt
                     THEN [addr |-> "data", len |-> c1.bufcnt, last |-> TRUE]
                     ELSE [addr |-> "buffer", len |-> c1.bufcnt, last |-> FALSE]]
            ELSE c1
        Blocks(c1, remaining) ==
            Remainder(start_hash_operation(
                          DataSg(BufferSg(c1, (input_len + c1.bufcnt) - remaining),
                                 (input_len + c1.bufcnt) - remaining),
                          data, (input_len + c1.bufcnt) - remaining),
                      remaining, (input_len + c1.bufcnt) - remaining)
        Fed(c1) ==
            IF c1.bufcnt + input_len < c1.block_size
            THEN [c1 EXCEPT !.buffer = BufWrite(@, c1.bufcnt, data),
                            !.bufcnt = c1.bufcnt + input_len]
            ELSE Blocks(c1, IF c1.block_size = 0 THEN 0
                            ELSE (input_len + c1.bufcnt) % c1.block_size)
    IN [k EXCEPT !.hw = Fed([@ EXCEPT !.digcnt = Carried(AddBE(@[1], input_len), @)])]

\* <OpContextImpl as DigestOp>::finalize: [k, output]
Scoped_finalize(k) ==
    LET Hashed(c3) ==
            [k |-> [k EXCEPT !.hw = [c3 EXCEPT !.bufcnt = 0, !.buffer = <<>>,
                                               !.digest = ZeroDigest,
                                               !.digcnt = <<U64Of(0), U64Of(0)>>]],
             output |-> [len |-> digest_size(k.ctrl.algo), value |-> c3.digest]]
        Last(c1) == [c1 EXCEPT !.sg[1] = [addr |-> "buffer", len |-> c1.bufcnt,
                                          last |-> TRUE]]
        Padded(c2) == Hashed(start_hash_operation(c2, <<>>, c2.bufcnt))
    IN Padded(Last(fill_padding(k.hw, 0)))

\* ---------------------------------------------------------------- MAC API

\* The length of the key, ipad and opad arrays of the context record.
KEY_SIZE == 128

\* a ^ b on the low n bits
RECURSIVE XorBits(_, _, _)
XorBits(a, b, n) ==
    IF n = 0 THEN 0
    ELSE ((a + b) % 2) + 2 * XorBits(a \div 2, b \div 2, n - 1)

\* for i in 0..n { pad[i] ^= c }
XorPad(pad, c, n) ==
    LET Xored(lp) == [i \in 1..n |-> XorBits(IF i <= lp THEN pad[i] ELSE 0, c, 8)] \o <<>>
    IN BufWrite(pad, 0, Xored(Len(pad)))

\* The digest_size bytes the engine leaves for msg, as a stand-in that depends
\* on the algorithm, the length and every byte of msg.
RECURSIVE ByteSum(_)
ByteSum(msg) ==
    IF Len(msg) = 0 THEN 0
    ELSE IF Len(msg) = 1 THEN msg[1] % 251
    ELSE (3 * ByteSum(SubSeq(msg, 1, Len(msg) \div 2))
          + ByteSum(SubSeq(msg, Len(msg) \div 2 + 1, Len(msg)))) % 251

DigestBytes(algo, msg) ==
    LET Spread(sum, n) == [i \in 1..digest_size(algo) |-> (sum + n + 7 * i) % 256] \o <<>>
    IN Spread(ByteSum(msg), Len(msg))

\* HaceController::hash_key: the key is replaced by its digest
hash_key(ctx, algo, key) ==
    [ctx EXCEPT !.key = BufWrite(@, 0, DigestBytes(algo, key)),
                !.ipad = BufWrite(@, 0, DigestBytes(algo, key)),
                !.opad = BufWrite(@, 0, DigestBytes(algo, key)),
                !.key_len = digest_size(algo)]

\* A MAC init that applies the pad constants to the bytes of the key only.
Mac_init_key_bytes_only(k, algo, key) ==
    [ctx_mut_unchecked([k EXCEPT !.ctrl.algo = algo]) EXCEPT !.hw =
        [@ EXCEPT !.method = hash_cmd(algo), !.block_size = block_size(algo),
                  !.bufcnt = 0, !.digcnt = <<U64Of(0), U64Of(0)>>,
                  !.buffer = <<>>, !.digest = ZeroDigest,
                  !.key = BufWrite(<<>>, 0, key), !.key_len = Len(key),
                  !.ipad = XorPad(BufWrite(<<>>, 0, key), 54, Len(key)),
                  !.opad = XorPad(BufWrite(<<>>, 0, key), 92, Len(key))]]

\* <HaceController as MacInit>::init of digest/hmac.rs
Mac_init(k, algo, key) ==
    LET Started(c) ==
            [copy_iv_to_digest(algo, [c EXCEPT !.method = hash_cmd(algo)])
                EXCEPT !.block_size = block_size(algo),
                       !.bufcnt = 0,
                       !.digcnt = <<U64Of(0), U64Of(0)>>]
        Cleared(c) ==
            [c EXCEPT !.buffer = <<>>, !.digest = ZeroDigest,
                      !.ipad = <<>>, !.opad = <<>>, !.key = <<>>]
        Keyed(c) ==
            IF Len(key) > KEY_SIZE
            THEN hash_key(c, algo, key)
            ELSE [c EXCEPT !.key = BufWrite(@, 0, key),
                           !.ipad = BufWrite(@, 0, key),
                           !.opad = BufWrite(@, 0, key),
                           !.key_len = Len(key)]
        Xored(c) ==
            [c EXCEPT !.ipad = XorPad(@, 54, c.block_size),
                      !.opad = XorPad(@, 92, c.block_size)]
    IN [ctx_mut_unchecked([k EXCEPT !.ctrl.algo = algo]) EXCEPT !.hw =
           Xored(Keyed(Cleared(Started(@))))]

\* HaceController::init_context of hace/hardware.rs
init_context(k) ==
    [ctx_mut_unchecked(k) EXCEPT !.hw =
        [copy_iv_to_digest(k.ctrl.algo, [@ EXCEPT !.method = hash_cmd(k.ctrl.algo)])
            EXCEPT !.block_size = block_size(k.ctrl.algo),
                   !.bufcnt = 0,
                   !.digcnt = <<U64Of(0), U64Of(0)>>]]

\* HaceController::setup_context of hace/hmac_impl.rs: [k, err]
setup_context(k, algo, key) ==
    LET Keyed(c) ==
            [c EXCEPT !.ipad = XorPad(BufWrite(<<>>, 0, key), 54, block_size(algo)),
                      !.opad = XorPad(BufWrite(<<>>, 0, key), 92, block_size(algo))]
    IN IF Len(key) > block_size(algo)
       THEN [k |-> [k EXCEPT !.ctrl.algo = algo], err |-> "InvalidInputLength"]
       ELSE [k |-> [init_context([k EXCEPT !.ctrl.algo = algo]) EXCEPT !.hw = Keyed(@)],
             err |-> "Ok"]

\* A MAC update whose outer pass continues from the inner digest instead of
\* starting again from the initialization vector.
Mac_update_continuing(k, input) ==
    LET bs == block_size(k.ctrl.algo)
        ds == digest_size(k.ctrl.algo)
        Inner(c) ==
            [c EXCEPT !.digcnt = <<U64Of(bs + Len(input)), @[2]>>,
                      !.bufcnt = bs + Len(input),
                      !.buffer = BufWrite(BufWrite(@, 0, BufRead(c.ipad, 0, bs)), bs, input),
                      !.method = IF (@ \div HACE_SG_EN) % 2 = 1 THEN @ - HACE_SG_EN ELSE @]
        Outer(c) ==
            [c EXCEPT !.digcnt = <<U64Of(bs + ds), @[2]>>,
                      !.bufcnt = bs + ds,
                      !.buffer = BufWrite(BufWrite(@, 0, BufRead(c.opad, 0, bs)), bs,
                                          DigestBytes(k.ctrl.algo, c.digest.absorbed))]
        Run(c) == start_hash_operation(c, <<>>, c.bufcnt)
        Sent(c) == [seed |-> c.digest, method |-> c.method, len |-> c.bufcnt,
                    bytes |-> BufRead(c.buffer, 0, c.bufcnt)]
        Second(k1, a, b) ==
            [k |-> [k1 EXCEPT !.hw = Run(b)], status |-> "Ok", log |-> <<Sent(a), Sent(b)>>]
        First(k1, a) == Second(k1, a, fill_padding(Outer(Run(a)), 0))
        Both(k1) ==
            IF bs + Len(input) > BUFFER_SIZE
               \/ fill_padding(Inner(k1.hw), 0).bufcnt > BUFFER_SIZE
            THEN [k |-> k1, status |-> "panic", log |-> <<>>]
            ELSE First(k1, copy_iv_to_digest(k.ctrl.algo, fill_padding(Inner(k1.hw), 0)))
    IN Both(ctx_mut_unchecked(k))

\* A MAC update that adds the length of ipad || input to the byte counter it
\* finds instead of starting the counter again.
Mac_update_accumulating(k, input) ==
    LET bs == block_size(k.ctrl.algo)
        ds == digest_size(k.ctrl.algo)
        \* H(ipad || input)
        Inner(c) ==
            [c EXCEPT !.digcnt = <<wrapping_add(@[1], bs + Len(input)), @[2]>>,
                      !.bufcnt = bs + Len(input),
                      !.buffer = BufWrite(BufWrite(@, 0, BufRead(c.ipad, 0, bs)), bs, input),
                      !.method = IF (@ \div HACE_SG_EN) % 2 = 1 THEN @ - HACE_SG_EN ELSE @]
        \* H(opad || H(ipad || input)): the digest bytes are the inner digest
        Outer(c) ==
            [c EXCEPT !.digcnt = <<U64Of(bs + ds), @[2]>>,
                      !.bufcnt = bs + ds,
                      !.buffer = BufWrite(BufWrite(@, 0, BufRead(c.opad, 0, bs)), bs,
                                          DigestBytes(k.ctrl.algo, c.digest.absorbed))]
        Ready(c) == copy_iv_to_digest(k.ctrl.algo, fill_padding(c, 0))
        Run(c) == start_hash_operation(c, <<>>, c.bufcnt)
        Sent(c) == [seed |-> c.digest, method |-> c.method, len |-> c.bufcnt,
                    bytes |-> BufRead(c.buffer, 0, c.bufcnt)]
        Fits(c) == fill_padding(c, 0).bufcnt <= BUFFER_SIZE
        Second(k1, a, b) ==
            [k |-> [k1 EXCEPT !.hw = Run(b)], status |-> "Ok", log |-> <<Sent(a), Sent(b)>>]
        First(k1, a) == Second(k1, a, Ready(Outer(Run(a))))
        Both(k1) ==
            IF bs + Len(input) > BUFFER_SIZE \/ ~Fits(Inner(k1.hw))
            THEN [k |-> k1, status |-> "panic", log |-> <<>>]
            ELSE First(k1, Ready(Inner(k1.hw)))
    IN Both(ctx_mut_unchecked(k))

\* <OpContextImpl as MacOp>::update of digest/hmac.rs: [k, status, log].
\* status is "panic" when a slice or an index goes past the 256-byte buffer;
\* log lists what each start_hash_operation of the call handed to the engine.
Mac_update(k, input) ==
    LET bs == block_size(k.ctrl.algo)
        ds == digest_size(k.ctrl.algo)
        \* H(ipad || input)
        Inner(c) ==
            [c EXCEPT !.digcnt = <<U64Of(bs + Len(input)), @[2]>>,
                      !.bufcnt = bs + Len(input),
                      !.buffer = BufWrite(BufWrite(@, 0, BufRead(c.ipad, 0, bs)), bs, input),
                      !.method = IF (@ \div HACE_SG_EN) % 2 = 1 THEN @ - HACE_SG_EN ELSE @]
        \* H(opad || H(ipad || input)): the digest bytes are the inner digest
        Outer(c) ==
            [c EXCEPT !.digcnt = <<U64Of(bs + ds), @[2]>>,
                      !.bufcnt = bs + ds,
                      !.buffer = BufWrite(BufWrite(@, 0, BufRead(c.opad, 0, bs)), bs,
                                          DigestBytes(k.ctrl.algo, c.digest.absorbed))]
        Ready(c) == copy_iv_to_digest(k.ctrl.algo, fill_padding(c, 0))
        Run(c) == start_hash_operation(c, <<>>, c.bufcnt)
        Sent(c) == [seed |-> c.digest, method |-> c.method, len |-> c.bufcnt,
                    bytes |-> BufRead(c.buffer, 0, c.bufcnt)]
        Fits(c) == fill_padding(c, 0).bufcnt <= BUFFER_SIZE
        Second(k1, a, b) ==
            [k |-> [k1 EXCEPT !.hw = Run(b)], status |-> "Ok", log |-> <<Sent(a), Sent(b)>>]
        First(k1, a) == Second(k1, a, Ready(Outer(Run(a))))
        Both(k1) ==
            IF bs + Len(input) > BUFFER_SIZE \/ ~Fits(Inner(k1.hw))
            THEN [k |-> k1, status |-> "panic", log |-> <<>>]
            ELSE First(k1, Ready(Inner(k1.hw)))
    IN Both(ctx_mut_unchecked(k))

\* <OpContextImpl as MacOp>::finalize of digest/hmac.rs: [k, output]
Mac_finalize(k) ==
    LET Read(k1) ==
            [k |-> cleanup_context(k1),
             output |-> [len |-> digest_size(k1.ctrl.algo), value |-> k1.hw.digest]]
    IN Read(ctx_mut_unchecked(k))

\* <OpContextImpl as MacOp>::update of hace/hmac_impl.rs: the same statements
Impl_update(k, input) == Mac_update(k, input)

\* <OpContextImpl as MacOp>::finalize of hace/hmac_impl.rs: no clean-up
Impl_finalize(k) ==
    LET Read(k1) ==
            [k |-> k1,
             output |-> [len |-> digest_size(k1.ctrl.algo), value |-> k1.hw.digest]]
    IN Read(ctx_mut_unchecked(k))

\* --------------------------------------------------------- session manager

\* The SessionManager instances of the program, by name.
Mgrs == {"A", "B"}

Callers == 1..MaxCallers

\* The update inputs that are explored: a short one that stays in the buffer,
\* and one of exactly a 64-byte block (a whole block for SHA-256, half a block
\* for SHA-384 and SHA-512).
Inputs == {<<1, 2, 3>>, Rep(4, 64)}

VARIABLES
    mgr,      \* mgr[m]: the SessionManager m (controller, sessions, next_id; N)
    sess,     \* sess[c]: the SessionDigest held in the caller's variable c, if any
    hw,       \* the shared hardware context (static HASH_CTX)
    asked,    \* asked[c]: the caller started a session for c while the manager
              \* had fewer than N live sessions, and has not yet ended it
    result,   \* the last API call and what it returned
    ended,    \* ended[m]: the handles the caller keeps of the sessions that
              \* manager m has finalized or cancelled
    prov,     \* the MultiContextProvider a program drives directly, if any
    held,     \* held[id]: the context last handed out by ctx_mut() for the
              \* session in provider slot id, with what was written through
              \* it; before the session's first ctx_mut(), whether an earlier
              \* session was released from the slot
    pcall,    \* the last call on prov and what it returned
    owned,    \* the HaceController and OwnedDigestContext values of a program
              \* that uses the owned digest API or the MAC API directly
    ocall,    \* the last call of that program and what it returned
    hace      \* the registers of the hash engine, the operation it runs, and
              \* where the program stands in start_hash_operation

vars == <<mgr, sess, hw, asked, result, ended, prov, held, pcall, owned, ocall, hace>>

\* The variables of a program that drives a MultiContextProvider directly.
pvars == <<prov, held, pcall>>

\* The variables of a program that uses a controller directly.
ovars == <<owned, ocall, hace>>

\* The engine after reset: no operation started, the completion flag clear.
IdleHace ==
    [pc |-> "idle", intflag |-> FALSE, busy |-> FALSE, src |-> "null", dst |-> "null",
     key |-> "null", len |-> 0, cmd |-> 0, writes |-> <<>>, calls |-> 0, kind |-> "none",
     jobs |-> <<>>, data |-> <<>>, final |-> None, expect |-> None, seen |-> None]

\* The variables of a program that works through SessionManagers.
svars == <<mgr, sess, asked, result, ended>>

\* SessionSlot::default
SessionSlot_default == [state |-> "Free", session_id |-> U32Of(0), algorithm |-> None]

\* A manager that has not been constructed.
NoManager ==
    [exists |-> FALSE, N |-> 0, controller |-> None, sessions |-> <<>>,
     next_id |-> U32Of(0)]

\* SessionManager::<N>::new: Ok(manager) or Err(InvalidSessionCount) (None)
SessionManager_new(m, N) ==
    IF N = 0 \/ N > MAX_SESSIONS THEN None
    ELSE LET provider == MultiContextProvider_new(N)
         IN IF provider = None THEN None
            ELSE Some([exists |-> TRUE, N |-> N,
                       controller |-> Some(with_provider(m, provider[1])),
                       sessions |-> [i \in 0..(N - 1) |-> SessionSlot_default],
                       next_id |-> U32Of(0)])

\* self.sessions.iter().position(|s| s.state == SlotState::Free)
FreePosition(M) ==
    LET free == {i \in DOMAIN M.sessions : M.sessions[i].state = "Free"}
    IN IF free = {} THEN None
       ELSE Some(CHOOSE i \in free : \A j \in free : i <= j)

\* An init_session that draws the generation id before it takes the
\* controller, so that a ControllerInUse return has advanced the counter.
init_session_id_first(M, hw0, algo) ==
    LET slot == FreePosition(M)
        taken == M.controller
        manager_session_id == M.next_id
        M1 == [M EXCEPT !.controller = None, !.next_id = wrapping_add(M.next_id, 1)]
    IN IF slot = None
       THEN [M |-> M, hw |-> hw0, err |-> "TooManySessions", session |-> None]
       ELSE IF taken = None
       THEN [M |-> M1, hw |-> hw0, err |-> "ControllerInUse", session |-> None]
       ELSE LET alloc == allocate_session(taken[1].provider)
            IN IF alloc.id = None
               THEN [M |-> M1, hw |-> hw0, err |-> "TooManySessions", session |-> None]
               ELSE LET provider_session_id == alloc.id[1]
                        controller == [taken[1] EXCEPT !.provider =
                                          set_active_session(alloc.p, provider_session_id)]
                        k == Owned_init([ctrl |-> controller, hw |-> hw0], algo)
                        M2 == [M1 EXCEPT !.sessions[slot[1]] =
                                             [state |-> "Active",
                                              session_id |-> manager_session_id,
                                              algorithm |-> Some(algo)]]
                    IN [M |-> M2, hw |-> k.hw, err |-> "Ok",
                        session |-> Some([context |-> [controller |-> k.ctrl, algo |-> algo],
                                          provider_session_id |-> provider_session_id,
                                          manager_session_id |-> manager_session_id,
                                          slot |-> slot[1],
                                          fed |-> <<>>])]

\* SessionManager::init_session: [M, hw, err, session]
init_session(M, hw0, algo) ==
    LET slot == FreePosition(M)
        taken == M.controller
        M1 == [M EXCEPT !.controller = None]
    IN IF slot = None
       THEN [M |-> M, hw |-> hw0, err |-> "TooManySessions", session |-> None]
       ELSE IF taken = None
       THEN [M |-> M1, hw |-> hw0, err |-> "ControllerInUse", session |-> None]
       ELSE LET alloc == allocate_session(taken[1].provider)
            IN IF alloc.id = None
               THEN [M |-> M1, hw |-> hw0, err |-> "TooManySessions", session |-> None]
               ELSE LET provider_session_id == alloc.id[1]
                        controller == [taken[1] EXCEPT !.provider =
                                          set_active_session(alloc.p, provider_session_id)]
                        k == Owned_init([ctrl |-> controller, hw |-> hw0], algo)
                        manager_session_id == M1.next_id
                        M2 == [M1 EXCEPT !.next_id = wrapping_add(M1.next_id, 1),
                                         !.sessions[slot[1]] =
                                             [state |-> "Active",
                                              session_id |-> manager_session_id,
                                              algorithm |-> Some(algo)]]
                    IN [M |-> M2, hw |-> k.hw, err |-> "Ok",
                        session |-> Some([context |-> [controller |-> k.ctrl, algo |-> algo],
                                          provider_session_id |-> provider_session_id,
                                          manager_session_id |-> manager_session_id,
                                          slot |-> slot[1],
                                          fed |-> <<>>])]

\* SessionDigest::update: [session, hw]
SessionDigest_update(d, hw0, data) ==
    LET controller == [d.context.controller EXCEPT !.provider =
                          set_active_session(d.context.controller.provider,
                                             d.provider_session_id)]
        k == Owned_update([ctrl |-> controller, hw |-> hw0], data)
    IN [session |-> [d EXCEPT !.context.controller = k.ctrl,
                              !.fed = Append(d.fed, data)],
        hw |-> k.hw]

\* SessionDigest::handle
SessionDigest_handle(d) == [slot |-> d.slot, id |-> d.manager_session_id]

\* The validation that opens finalize and cancel.
SessionIsValidated(M, d) ==
    /\ d.slot \in DOMAIN M.sessions
    /\ M.sessions[d.slot].session_id = d.manager_session_id

\* A release that returns the controller but leaves the manager slot as it is.
ReleaseKeepsSlot(M, controller, d) ==
    [M EXCEPT !.controller =
        Some([controller EXCEPT !.provider =
                 release_session(controller.provider, d.provider_session_id)])]

\* The tail shared by finalize and cancel: release the provider session,
\* mark the slot free, return the controller.
ReleaseAndReturn(M, controller, d) ==
    LET c1 == [controller EXCEPT !.provider =
                  release_session(controller.provider, d.provider_session_id)]
    IN [M EXCEPT !.sessions = [i \in DOMAIN M.sessions |->
                                  IF i = d.slot THEN SessionSlot_default
                                  ELSE M.sessions[i]],
                 !.controller = Some(c1)]

\* SessionManager::finalize: [M, hw, err, output, handle]
finalize(M, hw0, d) ==
    IF ~SessionIsValidated(M, d)
    THEN [M |-> M, hw |-> hw0, err |-> "InvalidSession", output |-> None, handle |-> None]
    ELSE LET controller == [d.context.controller EXCEPT !.provider =
                               set_active_session(d.context.controller.provider,
                                                  d.provider_session_id)]
             f == Owned_finalize([ctrl |-> controller, hw |-> hw0])
         IN [M |-> ReleaseAndReturn(M, f.k.ctrl, d), hw |-> f.k.hw, err |-> "Ok",
             output |-> Some(f.output), handle |-> Some(SessionDigest_handle(d))]

\* SessionManager::cancel: [M, hw, err]
cancel(M, hw0, d) ==
    IF ~SessionIsValidated(M, d)
    THEN [M |-> M, hw |-> hw0, err |-> "InvalidSession"]
    ELSE LET k == Owned_cancel([ctrl |-> d.context.controller, hw |-> hw0])
         IN [M |-> ReleaseAndReturn(M, k.ctrl, d), hw |-> k.hw, err |-> "Ok"]

\* A count of the slots that store a nonzero generation id.
active_count_by_id(M) ==
    Cardinality({i \in DOMAIN M.sessions : M.sessions[i].session_id # U32Of(0)})

\* SessionManager::active_count
active_count(M) == Cardinality({i \in DOMAIN M.sessions : M.sessions[i].state = "Active"})

\* An is_valid that compares the generation id only.
is_valid_id_only(M, handle) ==
    /\ handle.slot \in DOMAIN M.sessions
    /\ M.sessions[handle.slot].session_id = handle.id

\* SessionManager::is_valid
is_valid(M, handle) ==
    /\ handle.slot \in DOMAIN M.sessions
    /\ M.sessions[handle.slot].session_id = handle.id
    /\ M.sessions[handle.slot].state = "Active"

\* ------------------------------------------------------------------ actions

\* The sessions of manager m that the caller holds.
LiveOf(m) == {c \in Callers : IsSome(sess[c]) /\ sess[c][1].context.controller.owner = m}

\* What a call's record keeps of the manager it was made on and of the
\* SessionDigest it was given or it returned.
Seen(M) == [N |-> M.N, sessions |-> M.sessions, has_controller |-> IsSome(M.controller)]

Kept(s) ==
    IF IsSome(s)
    THEN Some([slot |-> s[1].slot,
               manager_session_id |-> s[1].manager_session_id,
               provider_session_id |-> s[1].provider_session_id,
               owner |-> s[1].context.controller.owner,
               fed |-> s[1].fed])
    ELSE None

\* What is remembered of the call before the last one.
NoPrev == [op |-> "new", m |-> "A", status |-> "Ok", slot |-> None]

NoResult ==
    [op |-> "new", m |-> "A", c |-> 0, status |-> "Ok", algo |-> None,
     session |-> None, output |-> None, handle |-> None,
     before |-> Seen(NoManager), prev |-> NoPrev, n |-> None]

\* The record of a call on manager m by caller c, made in the current state.
Called(op, m, c) ==
    [NoResult EXCEPT !.op = op, !.m = m, !.c = c, !.before = Seen(mgr[m]),
                     !.prev = [op |-> result.op, m |-> result.m,
                               status |-> result.status,
                               slot |-> IF IsSome(result.session)
                                        THEN Some(result.session[1].slot)
                                        ELSE None]]

\* The state after SessionManager::<N>::new for the managers of ms, each with
\* its own N.
Constructed(ms) ==
    /\ \E n \in [ms -> 1..MaxN] :
          mgr = [m \in Mgrs |-> IF m \in ms THEN SessionManager_new(m, n[m])[1]
                                ELSE NoManager]
    /\ sess = [c \in Callers |-> None]
    /\ hw = DefaultCtx
    /\ asked = [c \in Callers |-> FALSE]
    /\ result = NoResult
    /\ ended = [m \in Mgrs |-> {}]

\* What is remembered of a call on the provider: the call, the id it was given
\* or it returned, its result, what the save and the load inside ctx_mut()
\* returned, the provider and the hardware context before the call (for the
\* calls that change the provider's slots or the hardware context), the
\* context held for the active session before the call, whether the call is
\* the first ctx_mut() of a session in a slot an earlier session was released
\* from, and whether every set_active_session so far was given an allocated
\* id.
NoCall ==
    [op |-> "new", id |-> None, status |-> "Ok", save |-> None, load |-> None,
     before |-> None, expected |-> None, first_reused |-> FALSE, obeyed |-> TRUE]

\* What is held for a session that has not called ctx_mut() yet.
NotYet(reused) == Some([reused |-> reused])

\* A context is held for the session in slot id.
HasContext(id) == IsSome(held[id]) /\ "bufcnt" \in DOMAIN held[id][1]

\* No provider is driven directly.
NoProvider ==
    /\ prov = None
    /\ held = [i \in SlotIds |-> None]
    /\ pcall = NoCall

\* No controller is used directly.
NoOwned ==
    /\ owned = None
    /\ ocall = None
    /\ hace = IdleHace

Init == Constructed({"A"}) /\ NoProvider /\ NoOwned

\* s_c = manager.init_sha256() / init_sha384() / init_sha512()
InitCall(m, c, algo) ==
    /\ mgr[m].exists
    /\ sess[c] = None
    /\ mgr[m].next_id # U32Of(MaxInits)
    /\ \E r \in {init_session(mgr[m], hw, algo)} :
          /\ mgr' = [mgr EXCEPT ![m] = r.M]
          /\ hw' = r.hw
          /\ sess' = [sess EXCEPT ![c] = r.session]
          /\ asked' = [asked EXCEPT ![c] = Cardinality(LiveOf(m)) < mgr[m].N]
          /\ result' = [Called("init", m, c) EXCEPT !.status = r.err,
                                                    !.algo = Some(algo),
                                                    !.session = Kept(r.session)]
    /\ UNCHANGED <<ended, pvars, ovars>>

\* s_c = s_c.update(data)
UpdateCall(c, data) ==
    /\ IsSome(sess[c])
    /\ Len(sess[c][1].fed) < MaxUpdates
    /\ \E r \in {SessionDigest_update(sess[c][1], hw, data)} :
          /\ sess' = [sess EXCEPT ![c] = Some(r.session)]
          /\ hw' = r.hw
          /\ result' = [Called("update", sess[c][1].context.controller.owner, c)
                           EXCEPT !.algo = Some(sess[c][1].context.algo),
                                  !.session = Kept(Some(r.session))]
    /\ UNCHANGED <<mgr, asked, ended, pvars, ovars>>

\* manager.finalize(s_c)
FinalizeCall(m, c) ==
    /\ mgr[m].exists
    /\ IsSome(sess[c])
    /\ \E r \in {finalize(mgr[m], hw, sess[c][1])} :
          /\ mgr' = [mgr EXCEPT ![m] = r.M]
          /\ hw' = r.hw
          /\ result' = [Called("finalize", m, c)
                           EXCEPT !.status = r.err,
                                  !.algo = Some(sess[c][1].context.algo),
                                  !.session = Kept(sess[c]),
                                  !.output = r.output, !.handle = r.handle]
          /\ ended' = IF r.err = "Ok"
                      THEN [ended EXCEPT ![m] = @ \cup {SessionDigest_handle(sess[c][1])}]
                      ELSE ended
    /\ sess' = [sess EXCEPT ![c] = None]
    /\ asked' = [asked EXCEPT ![c] = FALSE]
    /\ UNCHANGED <<pvars, ovars>>

\* manager.cancel(s_c)
CancelCall(m, c) ==
    /\ mgr[m].exists
    /\ IsSome(sess[c])
    /\ \E r \in {cancel(mgr[m], hw, sess[c][1])} :
          /\ mgr' = [mgr EXCEPT ![m] = r.M]
          /\ hw' = r.hw
          /\ result' = [Called("cancel", m, c)
                           EXCEPT !.status = r.err,
                                  !.algo = Some(sess[c][1].context.algo),
                                  !.session = Kept(sess[c])]
          /\ ended' = IF r.err = "Ok"
                      THEN [ended EXCEPT ![m] = @ \cup {SessionDigest_handle(sess[c][1])}]
                      ELSE ended
    /\ sess' = [sess EXCEPT ![c] = None]
    /\ asked' = [asked EXCEPT ![c] = FALSE]
    /\ UNCHANGED <<pvars, ovars>>

\* One caller-side program working with one manager.
Next ==
    \/ \E c \in Callers, algo \in Algos : InitCall("A", c, algo)
    \/ \E c \in Callers, data \in Inputs : UpdateCall(c, data)
    \/ \E c \in Callers : FinalizeCall("A", c)
    \/ \E c \in Callers : CancelCall("A", c)

Spec == Init /\ [][Next]_vars

\* The manager and the hardware context after s = manager.init_sha256() and
\* manager.finalize(s).
AfterSession(M, hw0) ==
    LET Finalized(i) == finalize(i.M, i.hw, i.session[1])
    IN Finalized(init_session(M, hw0, "SHA256"))

\* u32::MAX
U32_MAX == Rep(255, 4)

\* A manager that has started and finalized 2^32 - 1 SHA-256 sessions one after
\* the other, so that next_id is u32::MAX; the caller has kept the handle of
\* the first of them, which had slot 0 and generation id 0.
InitWrap ==
    /\ \E n \in 1..MaxN, r \in {AfterSession(SessionManager_new("A", 1)[1], DefaultCtx)} :
          /\ mgr = [m \in Mgrs |->
                       IF m = "A"
                       THEN [AfterSession(SessionManager_new(m, n)[1], DefaultCtx).M
                                EXCEPT !.next_id = U32_MAX]
                       ELSE NoManager]
          /\ hw = r.hw
          /\ ended = [m \in Mgrs |-> IF m = "A" THEN {r.handle[1]} ELSE {}]
    /\ sess = [c \in Callers |-> None]
    /\ asked = [c \in Callers |-> FALSE]
    /\ result = NoResult
    /\ NoProvider
    /\ NoOwned

SpecWrap == InitWrap /\ [][Next]_vars

\* The program before it has constructed a manager.
InitNew ==
    /\ mgr = [m \in Mgrs |-> NoManager]
    /\ sess = [c \in Callers |-> None]
    /\ hw = DefaultCtx
    /\ asked = [c \in Callers |-> FALSE]
    /\ result = [NoResult EXCEPT !.op = "start"]
    /\ ended = [m \in Mgrs |-> {}]
    /\ NoProvider
    /\ NoOwned

\* manager = SessionManager::<N>::new(hace)
NewCall(m, N) ==
    /\ ~mgr[m].exists
    /\ \E r \in {SessionManager_new(m, N)} :
          /\ mgr' = IF IsSome(r) THEN [mgr EXCEPT ![m] = r[1]] ELSE mgr
          /\ result' = [Called("new", m, 0)
                           EXCEPT !.status = IF IsSome(r) THEN "Ok"
                                             ELSE "InvalidSessionCount",
                                  !.n = Some(N)]
    /\ UNCHANGED <<sess, hw, asked, ended, pvars, ovars>>

\* A program that constructs its manager and then works with it.
NextNew ==
    \/ \E N \in 0..MaxNewN : NewCall("A", N)
    \/ \E c \in Callers, algo \in Algos : InitCall("A", c, algo)
    \/ \E c \in Callers, data \in Inputs : UpdateCall(c, data)
    \/ \E c \in Callers : FinalizeCall("A", c)
    \/ \E c \in Callers : CancelCall("A", c)

SpecNew == InitNew /\ [][NextNew]_vars

\* Two managers in one program: a session of either can be handed to either.
InitCross == Constructed(Mgrs) /\ NoProvider /\ NoOwned

NextCross ==
    \/ \E m \in Mgrs, c \in Callers : InitCall(m, c, "SHA256")
    \/ \E c \in Callers : UpdateCall(c, <<1, 2, 3>>)
    \/ \E m \in Mgrs, c \in Callers : FinalizeCall(m, c)
    \/ \E m \in Mgrs, c \in Callers : CancelCall(m, c)

SpecCross == InitCross /\ [][NextCross]_vars

\* ------------------------------------------------- provider driven directly

\* The ids a program hands to set_active_session and release_session.
GivenIds == 0..MaxSlots

\* What the test writes through the reference ctx_mut() returned.
Patterns ==
    {[bufcnt |-> 42, buffer |-> <<170, 187>>],
     [bufcnt |-> 99, buffer |-> <<204, 221>>]}

\* The record of a call on the provider, made in the current state.
PCalled(op) ==
    [NoCall EXCEPT !.op = op,
                   !.before = IF op \in {"set_active_session", "write"} THEN None
                              ELSE Some([provider |-> prov[1], hw |-> hw]),
                   !.obeyed = pcall.obeyed]

\* let mut prov = MultiContextProvider::new(max_sessions).unwrap()
InitProvider ==
    /\ Constructed({})
    /\ \E max_sessions \in 1..MaxSlots : prov = MultiContextProvider_new(max_sessions)
    /\ held = [i \in SlotIds |-> None]
    /\ pcall = NoCall
    /\ NoOwned

\* provider.allocate_session()
AllocateCall ==
    /\ \E r \in {allocate_session(prov[1])} :
          /\ prov' = Some(r.p)
          /\ held' = IF IsSome(r.id)
                     THEN [held EXCEPT ![r.id[1]] = NotYet(IsSome(prov[1].contexts[r.id[1]]))]
                     ELSE held
          /\ pcall' = [PCalled("allocate_session")
                          EXCEPT !.id = r.id,
                                 !.status = IF IsSome(r.id) THEN "Ok" ELSE "SessionError"]
    /\ UNCHANGED <<hw, svars, ovars>>

\* provider.release_session(id)
ReleaseCall(id) ==
    /\ prov' = Some(release_session(prov[1], id))
    /\ held' = [i \in SlotIds |-> IF i = id THEN None ELSE held[i]]
    /\ pcall' = [PCalled("release_session") EXCEPT !.id = Some(id)]
    /\ UNCHANGED <<hw, svars, ovars>>

\* provider.set_active_session(id)
SetActiveCall(id) ==
    /\ prov' = Some(set_active_session(prov[1], id))
    /\ pcall' = [PCalled("set_active_session")
                    EXCEPT !.id = Some(id),
                           !.obeyed = pcall.obeyed /\ is_session_allocated(prov[1], id)]
    /\ UNCHANGED <<hw, held, svars, ovars>>

\* let ctx = provider.ctx_mut()
CtxMutCall ==
    /\ \E r \in {ctx_mut(prov[1], hw)}, p \in {prov[1]} :
          /\ prov' = Some(r.p)
          /\ hw' = r.hw
          /\ held' = IF is_session_allocated(p, p.active_id)
                     THEN [held EXCEPT ![p.active_id] = Some(r.hw)]
                     ELSE held
          /\ pcall' = [PCalled("ctx_mut")
                          EXCEPT !.id = Some(p.active_id),
                                 !.status = "Ok",
                                 !.first_reused = /\ is_session_allocated(p, p.active_id)
                                                  /\ held[p.active_id] = NotYet(TRUE),
                                 !.save = IF p.last_loaded # Some(p.active_id)
                                             /\ p.last_loaded # None
                                          THEN Some(save_hw_to_slot(p, hw, p.last_loaded[1]).err)
                                          ELSE None,
                                 !.load = IF p.last_loaded # Some(p.active_id)
                                          THEN Some(load_slot_to_hw(p, hw, p.active_id).err)
                                          ELSE None,
                                 !.expected = IF /\ is_session_allocated(p, p.active_id)
                                                 /\ HasContext(p.active_id)
                                              THEN held[p.active_id]
                                              ELSE None]
    /\ UNCHANGED <<svars, ovars>>

\* ctx.bufcnt = ..; ctx.buffer[0] = ..; ctx.buffer[1] = ..
\* through the reference the ctx_mut() just made returned, by a caller whose
\* session is allocated
WriteCall(w) ==
    /\ pcall.op = "ctx_mut"
    /\ is_session_allocated(prov[1], prov[1].active_id)
    /\ \E p \in {prov[1]} :
          /\ hw' = [hw EXCEPT !.bufcnt = w.bufcnt, !.buffer = BufWrite(@, 0, w.buffer)]
          /\ held' = IF is_session_allocated(p, p.active_id)
                     THEN [held EXCEPT ![p.active_id] = Some(hw')]
                     ELSE held
    /\ pcall' = [PCalled("write") EXCEPT !.id = pcall.id]
    /\ UNCHANGED <<prov, svars, ovars>>

\* A program that drives one MultiContextProvider directly.
NextProvider ==
    \/ AllocateCall
    \/ \E id \in GivenIds : ReleaseCall(id)
    \/ \E id \in GivenIds : SetActiveCall(id)
    \/ CtxMutCall
    \/ \E w \in Patterns : WriteCall(w)

SpecProvider == InitProvider /\ [][NextProvider]_vars

\* ------------------------------ a program that uses a controller directly

\* The largest number of update calls the program makes.
MaxPieces == 3

\* The largest number of init calls the program makes.
MaxRounds == 2

\* n input bytes, none of them zero, the first of which is first.
Piece(first, n) == [i \in 1..n |-> ((first + i - 2) % 255) + 1]

\* The inputs of update: nothing, one byte less than what leaves room for the
\* length field of a 64-byte block, exactly that, a 64-byte block, and more
\* than a 128-byte block.
OwnedInputs == {Piece(1, 0), Piece(11, 55), Piece(71, 56), Piece(131, 64), Piece(201, 130)}

\* The keys of the MAC: of the size of the SHA-256 key type, of the block size
\* of SHA-256, one byte longer, of the block size of SHA-384/512, and longer
\* than the key array.
MacKeys == {Piece(3, 32), Piece(5, 64), Piece(7, 65), Piece(9, 128), Piece(2, 130)}

\* The inputs of the MAC update.
MacInputs == {Piece(1, 3), Piece(201, 130)}

\* What is remembered of a call: the call, its algorithm, its input, its
\* status, the hardware context before it (for update, finalize and cancel),
\* the bytes passed to update since the last init, the number of them as a
\* 128-bit big-endian number, the numbers of update and init calls so far, the
\* call before the last init, the number of bytes passed to update before the
\* last init, the context fill_padding left inside finalize, and the output.
NoOwnedCall ==
    [op |-> "new", algo |-> None, data |-> <<>>, status |-> "Ok", before |-> None,
     msg |-> <<>>, total |-> Rep(0, 16), updates |-> 0, inits |-> 0,
     prior |-> "new", earlier |-> 0, padded |-> None, output |-> None,
     key |-> <<>>, log |-> <<>>]

\* The record of an init call made in the current state.
Started(op, algo) ==
    [NoOwnedCall EXCEPT !.op = op, !.algo = Some(algo),
                       !.updates = ocall.updates,
                       !.inits = ocall.inits + 1,
                       !.prior = ocall.op,
                       !.earlier = ocall.earlier + Len(ocall.msg)]

\* The controller and the context the program works on.
Machine == [ctrl |-> owned.controller, hw |-> hw]

\* A controller that has never been used, with the context as the program
\* starts with it.
NeverUsed == [ctrl |-> HaceController_new("main"), hw |-> DefaultCtx]

\* let controller = HaceController::new(hace)
InitOwned ==
    /\ Constructed({})
    /\ NoProvider
    /\ owned = [holds |-> "controller", controller |-> HaceController_new("main")]
    /\ ocall = NoOwnedCall
    /\ hace = IdleHace

\* context = controller.init(T): the controller is moved into the context; a
\* MAC context that borrowed the controller has been dropped
OwnedInitCall(algo) ==
    /\ owned.holds \in {"controller", "mac", "mac_impl"}
    /\ ocall.inits < MaxRounds
    /\ \E r \in {Owned_init(Machine, algo)} :
          /\ owned' = [holds |-> "digest", controller |-> r.ctrl]
          /\ hw' = r.hw
          /\ ocall' = Started("init", algo)
    /\ UNCHANGED <<svars, pvars, hace>>

\* context = context.update(data)
OwnedUpdateCall(data) ==
    /\ owned.holds = "digest"
    /\ ocall.updates < MaxPieces
    /\ \E r \in {Owned_update(Machine, data)} :
          /\ owned' = [owned EXCEPT !.controller = r.ctrl]
          /\ hw' = r.hw
          /\ ocall' = [ocall EXCEPT !.op = "update", !.data = data,
                                    !.before = Some(hw),
                                    !.msg = @ \o data,
                                    !.updates = @ + 1,
                                    !.total = AddBE(@, Len(data)).sum]
    /\ UNCHANGED <<svars, pvars, hace>>

\* (digest, controller) = context.finalize()
OwnedFinalizeCall ==
    /\ owned.holds = "digest"
    /\ \E r \in {Owned_finalize(Machine)} :
          /\ owned' = [holds |-> "controller", controller |-> r.k.ctrl]
          /\ hw' = r.k.hw
          /\ ocall' = [ocall EXCEPT !.op = "finalize", !.data = <<>>,
                                    !.before = Some(hw),
                                    !.padded = Some(fill_padding(ctx_mut_unchecked(Machine).hw, 0)),
                                    !.log = r.sent,
                                    !.output = Some(r.output)]
    /\ UNCHANGED <<svars, pvars, hace>>

\* controller = context.cancel()
OwnedCancelCall ==
    /\ owned.holds = "digest"
    /\ \E r \in {Owned_cancel(Machine)} :
          /\ owned' = [holds |-> "controller", controller |-> r.ctrl]
          /\ hw' = r.hw
          /\ ocall' = [ocall EXCEPT !.op = "cancel", !.data = <<>>,
                                    !.before = Some(hw)]
    /\ UNCHANGED <<svars, pvars, hace>>

\* mac = controller.init(A, &key) with the MacInit of digest/hmac.rs
MacInitCall(algo, key) ==
    /\ owned.holds \in {"controller", "mac", "mac_impl"}
    /\ ocall.inits < MaxRounds
    /\ \E r \in {Mac_init(Machine, algo, key)} :
          /\ owned' = [holds |-> "mac", controller |-> r.ctrl]
          /\ hw' = r.hw
          /\ ocall' = [Started("mac_init", algo) EXCEPT !.data = key, !.key = key]
    /\ UNCHANGED <<svars, pvars, hace>>

\* mac = controller.init(A, &key) with the MacInit of hace/hmac_impl.rs
SetupContextCall(algo, key) ==
    /\ owned.holds \in {"controller", "mac", "mac_impl"}
    /\ ocall.inits < MaxRounds
    /\ \E r \in {setup_context(Machine, algo, key)} :
          /\ owned' = [holds |-> IF r.err = "Ok" THEN "mac_impl" ELSE "controller",
                       controller |-> r.k.ctrl]
          /\ hw' = r.k.hw
          /\ ocall' = [Started("setup_context", algo) EXCEPT !.data = key,
                                                              !.key = key,
                                                              !.status = r.err]
    /\ UNCHANGED <<svars, pvars, hace>>

\* mac.update(input): a panic halts the program
MacUpdateCall(input) ==
    /\ owned.holds = "mac"
    /\ ocall.updates < MaxPieces
    /\ \E r \in {Mac_update(Machine, input)} :
          /\ owned' = [holds |-> IF r.status = "Ok" THEN "mac" ELSE "halted",
                       controller |-> r.k.ctrl]
          /\ hw' = r.k.hw
          /\ ocall' = [ocall EXCEPT !.op = "mac_update", !.data = input,
                                    !.status = r.status,
                                    !.before = Some(hw),
                                    !.msg = input,
                                    !.log = r.log,
                                    !.updates = @ + 1]
    /\ UNCHANGED <<svars, pvars, hace>>

\* mac.update(input) on the MAC context of hace/hmac_impl.rs
ImplUpdateCall(input) ==
    /\ owned.holds = "mac_impl"
    /\ ocall.updates < MaxPieces
    /\ \E r \in {Impl_update(Machine, input)} :
          /\ owned' = [holds |-> IF r.status = "Ok" THEN "mac_impl" ELSE "halted",
                       controller |-> r.k.ctrl]
          /\ hw' = r.k.hw
          /\ ocall' = [ocall EXCEPT !.op = "mac_update", !.data = input,
                                    !.status = r.status,
                                    !.before = Some(hw),
                                    !.msg = input,
                                    !.log = r.log,
                                    !.updates = @ + 1]
    /\ UNCHANGED <<svars, pvars, hace>>

\* output = mac.finalize() on the MAC context of hace/hmac_impl.rs
ImplFinalizeCall ==
    /\ owned.holds = "mac_impl"
    /\ \E r \in {Impl_finalize(Machine)} :
          /\ owned' = [holds |-> "controller", controller |-> r.k.ctrl]
          /\ hw' = r.k.hw
          /\ ocall' = [ocall EXCEPT !.op = "mac_finalize", !.data = <<>>,
                                    !.before = Some(hw),
                                    !.output = Some(r.output)]
    /\ UNCHANGED <<svars, pvars, hace>>

\* output = mac.finalize()
MacFinalizeCall ==
    /\ owned.holds = "mac"
    /\ \E r \in {Mac_finalize(Machine)} :
          /\ owned' = [holds |-> "controller", controller |-> r.k.ctrl]
          /\ hw' = r.k.hw
          /\ ocall' = [ocall EXCEPT !.op = "mac_finalize", !.data = <<>>,
                                    !.before = Some(hw),
                                    !.output = Some(r.output)]
    /\ UNCHANGED <<svars, pvars, hace>>

NextOwned ==
    \/ \E algo \in Algos : OwnedInitCall(algo)
    \/ \E data \in OwnedInputs : OwnedUpdateCall(data)
    \/ OwnedFinalizeCall
    \/ OwnedCancelCall

SpecOwned == InitOwned /\ [][NextOwned]_vars

\* A program that computes MACs and then starts a digest.
NextMac ==
    \/ \E algo \in Algos, key \in MacKeys : MacInitCall(algo, key)
    \/ \E algo \in Algos, key \in MacKeys : SetupContextCall(algo, key)
    \/ \E input \in MacInputs : MacUpdateCall(input)
    \/ MacFinalizeCall
    \/ \E algo \in Algos : OwnedInitCall(algo)

SpecMac == InitOwned /\ [][NextMac]_vars

\* context = controller.init(T) with the scoped API of hash.rs
ScopedInitCall(algo) ==
    /\ owned.holds = "controller"
    /\ ocall.inits < MaxRounds
    /\ \E r \in {Scoped_init(Machine, algo)} :
          /\ owned' = [holds |-> "scoped", controller |-> r.ctrl]
          /\ hw' = r.hw
          /\ ocall' = Started("init", algo)
    /\ UNCHANGED <<svars, pvars, hace>>

\* context.update(data)
ScopedUpdateCall(data) ==
    /\ owned.holds = "scoped"
    /\ ocall.updates < MaxPieces
    /\ \E r \in {Scoped_update(Machine, data)} :
          /\ owned' = [owned EXCEPT !.controller = r.ctrl]
          /\ hw' = r.hw
          /\ ocall' = [ocall EXCEPT !.op = "update", !.data = data,
                                    !.before = Some(hw),
                                    !.msg = @ \o data,
                                    !.updates = @ + 1,
                                    !.total = AddBE(@, Len(data)).sum]
    /\ UNCHANGED <<svars, pvars, hace>>

\* output = context.finalize()
ScopedFinalizeCall ==
    /\ owned.holds = "scoped"
    /\ \E r \in {Scoped_finalize(Machine)} :
          /\ owned' = [holds |-> "controller", controller |-> r.k.ctrl]
          /\ hw' = r.k.hw
          /\ ocall' = [ocall EXCEPT !.op = "finalize", !.data = <<>>,
                                    !.before = Some(hw),
                                    !.output = Some(r.output)]
    /\ UNCHANGED <<svars, pvars, hace>>

\* The update inputs of a program that uses the scoped API: 3 + 61 bytes end
\* on a 64-byte boundary and 3 + 125 on a 128-byte one.
ScopedInputs == {Piece(1, 3), Piece(11, 61), Piece(131, 64), Piece(71, 125)}

NextScoped ==
    \/ \E algo \in Algos : ScopedInitCall(algo)
    \/ \E data \in ScopedInputs : ScopedUpdateCall(data)
    \/ ScopedFinalizeCall

SpecScoped == InitOwned /\ [][NextScoped]_vars

\* The key and inputs of a program that only computes MACs: a key shorter
\* than every block; inputs that fit the buffer with every algorithm (0 and
\* 3 bytes), one that fits with the 64-byte block only and is past the end of
\* the buffer after a 128-byte ipad (130), and one that fits after a 64-byte
\* ipad but leaves no room for its padding (190).
HmacKeys == {Piece(3, 32)}

HmacInputs == {Piece(1, 0), Piece(1, 3), Piece(201, 130), Piece(7, 190)}

NextHmac ==
    \/ \E algo \in Algos, key \in HmacKeys : MacInitCall(algo, key)
    \/ \E algo \in Algos, key \in HmacKeys : SetupContextCall(algo, key)
    \/ \E input \in HmacInputs : MacUpdateCall(input)
    \/ \E input \in HmacInputs : ImplUpdateCall(input)
    \/ MacFinalizeCall
    \/ ImplFinalizeCall

SpecHmac == InitOwned /\ [][NextHmac]_vars

\* 2^64 - 128 as a u64
NearWrap == Rep(255, 7) \o <<128>>

\* 2^61 - 1 as a u64: the largest digcnt[1] of a count below 2^125
HighWord == <<31>> \o Rep(255, 7)

\* A computation that has been fed 2^64 - 128 bytes in whole blocks since its
\* init, or (2^61 - 1) * 2^64 bytes more: the buffer is empty, and the digest
\* accumulator stands for what the engine has made of those bytes.
InitCount ==
    /\ mgr = [m \in Mgrs |-> NoManager]
    /\ sess = [c \in Callers |-> None]
    /\ asked = [c \in Callers |-> FALSE]
    /\ result = NoResult
    /\ ended = [m \in Mgrs |-> {}]
    /\ NoProvider
    /\ hace = IdleHace
    /\ \E algo \in Algos, high \in {U64Of(0), HighWord} :
          /\ owned = [holds |-> "digest",
                      controller |-> [HaceController_new("main") EXCEPT !.algo = algo]]
          /\ hw = [Owned_init([ctrl |-> HaceController_new("main"), hw |-> DefaultCtx],
                              algo).hw
                      EXCEPT !.digcnt = <<NearWrap, high>>,
                             !.digest.cmds = {hash_cmd(algo)}]
          /\ ocall = [NoOwnedCall EXCEPT !.op = "update", !.algo = Some(algo),
                                        !.before = Some(hw),
                                        !.total = high \o NearWrap,
                                        !.inits = 1]

NextCount ==
    \/ \E data \in OwnedInputs : OwnedUpdateCall(data)
    \/ OwnedFinalizeCall
    \/ OwnedCancelCall

SpecCount == InitCount /\ [][NextCount]_vars

\* The largest number of bytes passed to the one update of a computation
\* that is then finalized.
MaxPending == 127

\* context = controller.init(T).update(data), for every number of bytes below
\* the block size of T
InitPad ==
    /\ mgr = [m \in Mgrs |-> NoManager]
    /\ sess = [c \in Callers |-> None]
    /\ asked = [c \in Callers |-> FALSE]
    /\ result = NoResult
    /\ ended = [m \in Mgrs |-> {}]
    /\ NoProvider
    /\ hace = IdleHace
    /\ \E algo \in Algos, c \in 0..MaxPending :
          /\ c < block_size(algo)
          /\ \E r \in {Owned_update(Owned_init(NeverUsed, algo), Piece(1, c))} :
                /\ owned = [holds |-> "digest", controller |-> r.ctrl]
                /\ hw = r.hw
                /\ ocall = [NoOwnedCall EXCEPT !.op = "update", !.algo = Some(algo),
                                              !.data = Piece(1, c),
                                              !.before = Some(Owned_init(NeverUsed, algo).hw),
                                              !.msg = Piece(1, c),
                                              !.total = BEBytes(c, 16),
                                              !.updates = 1,
                                              !.inits = 1]

NextPad == OwnedFinalizeCall

SpecPad == InitPad /\ [][NextPad]_vars

\* --------------------------------- start_hash_operation, register by register

\* The largest number of calls that reach start_hash_operation in one run.
MaxDispatchCalls == 2

\* A write to hace1c that leaves hash_intflag as it is.
ClearFlag_without_effect(h) == [h EXCEPT !.writes = Append(@, "hace1c")]

\* hace1c: hash_intflag is cleared by writing 1 to it
ClearFlag(h) == [h EXCEPT !.intflag = FALSE, !.writes = Append(@, "hace1c")]

\* The source address: the descriptor list in scatter-gather mode, else the buffer
SrcAddr(ctx) == IF (ctx.method \div HACE_SG_EN) % 2 = 1 THEN "sg" ELSE "buffer"

\* A wait loop that goes round while the flag is set.
Waiting_while_set(h) == h.intflag

\* while hash_intflag().bit_is_clear()
Waiting(h) == ~h.intflag

\* The engine runs the operation the registers describe: it reads a descriptor
\* list or len bytes at the source address, as the scatter-gather bit of the
\* command says, and leaves the result at the digest address. A source that
\* is not what the command says it is gives a digest of something else.
EngineRun(ctx, h) ==
    IF h.src = SrcAddr([method |-> h.cmd]) /\ h.dst = "digest"
    THEN HashEngine([ctx EXCEPT !.method = h.cmd], h.data, h.len)
    ELSE [ctx EXCEPT !.digest.absorbed = @ \o <<256>>, !.digest.cmds = @ \cup {h.cmd}]

\* What a call hands to start_hash_operation, dispatch by dispatch, with the
\* context as the call leaves it and the digest its caller reads; the call is
\* made after init and an update of three bytes (digest API) or after init
\* with a 32-byte key (MAC API).
DispatchKinds == {"update", "finalize", "mac_update"}

DispatchData == {Piece(11, 61), Piece(201, 130)}

Pending(algo) == Owned_update(Owned_init(NeverUsed, algo), Piece(1, 3))

\* update: the descriptors are built, total_len is passed
UpdateJobs(pre, post, data) ==
    IF post.digest = pre.digest THEN <<>>
    ELSE <<[ctx |-> [pre EXCEPT !.sg = post.sg, !.digcnt = post.digcnt],
            len |-> (pre.bufcnt + Len(data)) - post.bufcnt]>>

\* finalize: the buffer is padded, its descriptor built, bufcnt is passed
FinalizeJobs(pre, fin) ==
    <<[ctx |-> [fill_padding(pre, 0) EXCEPT !.sg = fin.sent[1].sg],
       len |-> fin.sent[1].len]>>

\* MAC update: the buffer holds the padded pass, the accumulator the
\* initialization vector, bufcnt is passed
MacJobs(pre, upd) ==
    [i \in 1..Len(upd.log) |->
        [ctx |-> [pre EXCEPT !.buffer = BufWrite(<<>>, 0, upd.log[i].bytes),
                             !.bufcnt = upd.log[i].len,
                             !.digest = upd.log[i].seed,
                             !.method = upd.log[i].method],
         len |-> upd.log[i].len]]

Dispatches(kind, algo, data) ==
    LET Upd(pre, post) ==
            [jobs |-> UpdateJobs(pre, post, data), data |-> data, final |-> post,
             expect |-> post.digest]
        Fin(pre, fin) ==
            [jobs |-> FinalizeJobs(pre, fin), data |-> <<>>, final |-> fin.k.hw,
             expect |-> fin.output.value]
        Mac(pre, upd) ==
            [jobs |-> MacJobs(pre, upd), data |-> <<>>, final |-> upd.k.hw,
             expect |-> upd.k.hw.digest]
    IN CASE kind = "update" ->
              Upd(Pending(algo).hw, Owned_update(Pending(algo), data).hw)
         [] kind = "finalize" ->
              Fin(Pending(algo).hw, Owned_finalize(Pending(algo)))
         [] OTHER ->
              Mac(Mac_init(NeverUsed, algo, Piece(3, 32)).hw,
                  Mac_update(Mac_init(NeverUsed, algo, Piece(3, 32)), Piece(1, 3)))

\* update, finalize or MAC update is called and runs up to its first
\* start_hash_operation (or, an update that only buffers, to its end)
DispatchCall(kind, algo, data) ==
    /\ hace.pc = "idle"
    /\ hace.calls < MaxDispatchCalls
    /\ \E d \in {Dispatches(kind, algo, data)} :
          /\ hace' = [hace EXCEPT !.pc = IF d.jobs = <<>> THEN "idle" ELSE "clear",
                                  !.kind = kind, !.jobs = d.jobs, !.data = d.data,
                                  !.final = Some(d.final), !.expect = Some(d.expect),
                                  !.seen = IF d.jobs = <<>> THEN Some(d.final.digest)
                                           ELSE None,
                                  !.writes = <<>>, !.calls = @ + 1]
          /\ hw' = IF d.jobs = <<>> THEN d.final ELSE d.jobs[1].ctx
    /\ UNCHANGED <<svars, pvars, owned, ocall>>

\* self.hace.hace1c().write(|w| w.hash_intflag().set_bit()), twice
ClearStep ==
    /\ hace.pc \in {"clear", "clear2"}
    /\ hace' = [ClearFlag(hace) EXCEPT !.pc = IF hace.pc = "clear" THEN "clear2" ELSE "src"]
    /\ UNCHANGED <<hw, svars, pvars, owned, ocall>>

\* hace20 (source), hace24 (digest), hace28 (key buffer), hace2c (length)
RegisterStep ==
    /\ hace.pc \in {"src", "dst", "key", "len"}
    /\ hace' = CASE hace.pc = "src" ->
                      [hace EXCEPT !.src = SrcAddr(hw), !.pc = "dst",
                                   !.writes = Append(@, "hace20")]
                 [] hace.pc = "dst" ->
                      [hace EXCEPT !.dst = "digest", !.pc = "key",
                                   !.writes = Append(@, "hace24")]
                 [] hace.pc = "key" ->
                      [hace EXCEPT !.key = "digest", !.pc = "len",
                                   !.writes = Append(@, "hace28")]
                 [] OTHER ->
                      [hace EXCEPT !.len = hace.jobs[1].len, !.pc = "cmd",
                                   !.writes = Append(@, "hace2c")]
    /\ UNCHANGED <<hw, svars, pvars, owned, ocall>>

\* hace30 (command): the engine starts
CommandStep ==
    /\ hace.pc = "cmd"
    /\ hace' = [hace EXCEPT !.cmd = hw.method, !.busy = TRUE, !.pc = "wait",
                            !.writes = Append(@, "hace30")]
    /\ UNCHANGED <<hw, svars, pvars, owned, ocall>>

\* The wait loop ends: start_hash_operation returns, and the call goes on to
\* its next start_hash_operation or to its end. A turn of the loop that finds
\* the flag clear changes nothing.
ReturnStep ==
    /\ hace.pc = "wait"
    /\ ~Waiting(hace)
    /\ IF Len(hace.jobs) > 1
       THEN /\ hace' = [hace EXCEPT !.pc = "clear", !.jobs = Tail(@), !.writes = <<>>]
            /\ hw' = hace.jobs[2].ctx
       ELSE /\ hace' = [hace EXCEPT !.pc = "idle", !.jobs = <<>>, !.seen = Some(hw.digest)]
            /\ hw' = hace.final[1]
    /\ UNCHANGED <<svars, pvars, owned, ocall>>

\* The engine completes the operation and raises hash_intflag.
EngineComplete ==
    /\ hace.busy
    /\ hw' = EngineRun(hw, hace)
    /\ hace' = [hace EXCEPT !.busy = FALSE, !.intflag = TRUE]
    /\ UNCHANGED <<svars, pvars, owned, ocall>>

StartHashOperation == ClearStep \/ RegisterStep \/ CommandStep \/ ReturnStep

NextDispatch ==
    \/ \E kind \in DispatchKinds, algo \in Algos, data \in DispatchData :
           DispatchCall(kind, algo, data)
    \/ ClearStep
    \/ RegisterStep
    \/ CommandStep
    \/ ReturnStep
    \/ EngineComplete

SpecDispatch == InitOwned /\ [][NextDispatch]_vars

\* The processor goes on executing, and the engine completes every operation
\* it has been given.
SpecDispatchLive ==
    SpecDispatch /\ WF_vars(StartHashOperation) /\ WF_vars(EngineComplete)

\* --------------------------------------------------------------- properties

\* The message a SHA-2 algorithm hashes for msg: msg, the byte 0x80, zeros up to
\* the length field, and the bit length of msg in 8 (SHA-256) or 16 bytes.
RefPad(algo, msg) ==
    LET bs == block_size(algo)
        lenbytes == IF bs = 64 THEN 8 ELSE 16
    IN msg \o <<128>> \o Rep(0, (bs - ((Len(msg) + 1 + lenbytes) % bs)) % bs)
           \o Rep(0, lenbytes - 4) \o BEBytes(Len(msg) * 8, 4)

\* The digest of msg computed by one run of the algorithm on its own.
RefDigest(algo, msg) ==
    [iv |-> algo, absorbed |-> RefPad(algo, msg), cmds |-> {hash_cmd(algo)}]

\* The last call was a finalize or a cancel.
Ended == result.op \in {"finalize", "cancel"}

\* The session (slot, id) of d matches an Active slot of M with the same id.
Matches(M, d) ==
    /\ d.slot < M.N
    /\ M.sessions[d.slot].state = "Active"
    /\ M.sessions[d.slot].session_id = d.manager_session_id

\* The parties that hold the controller constructed for manager m: managers
\* whose controller field holds it, and live sessions that hold it.
Holders(m) ==
    Cardinality({x \in Mgrs : /\ IsSome(mgr[x].controller)
                              /\ mgr[x].controller[1].owner = m})
    + Cardinality(LiveOf(m))

\* The context of the session in the caller's variable o: the shared hardware
\* context if the session is the one loaded, else its saved slot.
SessionContext(o) ==
    IF IsSome(sess[o])
    THEN LET p == sess[o][1].context.controller.provider
             id == sess[o][1].provider_session_id
         IN IF p.last_loaded = Some(id) THEN Some(hw) ELSE p.contexts[id]
    ELSE None

\* The handles a caller can present.
Handles == [slot : 0..MaxN, id : {U32Of(i) : i \in 0..MaxInits}]

\* C1: every session a caller starts while the manager has fewer than N live
\* sessions is live until it is ended, so that updates can be interleaved
\* across them, and each finalize returns the digest of the concatenation of
\* that session's own update inputs, the digest of a run on its own.
C1_InterleavedSessionsOwnDigest ==
    /\ \A c \in Callers : asked[c] => IsSome(sess[c])
    /\ (result.op = "finalize" /\ result.status = "Ok") =>
          result.output =
              Some([len |-> digest_size(result.algo[1]),
                    value |-> RefDigest(result.algo[1], Flatten(result.session[1].fed))])

\* C2: init_sha256/384/512 succeeds whenever fewer than N sessions of the
\* manager are live, and the session it returns is then live.
C2_InitSucceedsBelowCapacity ==
    \A c \in Callers :
        (result.op = "init" /\ result.c = c /\ asked[c]) =>
            (result.status = "Ok" /\ IsSome(sess[c]))

C4_ControllerInUseUnreachable == result.status # "ControllerInUse"

\* C5: a successful cancel of one session leaves every other session that was
\* started within the manager's capacity live, and its context (hardware
\* resident or saved in its slot) as it was.
C5_CancelLeavesOthers ==
    [][\A c, o \in Callers :
          (/\ result'.op = "cancel"
           /\ result'.status = "Ok"
           /\ result'.c = c
           /\ o # c
           /\ asked[o]) =>
              (/\ IsSome(sess[o])
               /\ sess'[o] = sess[o]
               /\ SessionContext(o)' = SessionContext(o))]_vars

\* C6: the controller of every constructed manager is held by exactly one
\* party, a manager or one live session, and is never lost: in particular a
\* call that returns an error leaves every controller with the one holder it
\* had.
C6_ControllerHasOneOwner ==
    [][result'.status # "Ok" =>
          \A m \in Mgrs : mgr[m].exists => (Holders(m) = 1 => Holders(m)' = 1)]_vars

C8_ReleasedAfterEnd ==
    (Ended /\ result.status = "Ok") =>
        LET M == mgr[result.m]
            d == result.session[1]
        IN /\ IsSome(M.controller)
           /\ ~is_session_allocated(M.controller[1].provider, d.provider_session_id)
           /\ M.sessions[d.slot].state = "Free"
           /\ M.sessions[d.slot].algorithm = None
           /\ init_session(M, hw, "SHA256").err = "Ok"

C8_FinalizedAfterUpdates ==
    /\ result.op = "finalize"
    /\ result.status = "Ok"
    /\ Len(result.session[1].fed) = 2
    /\ mgr[result.m].controller # None

\* C9: finalize and cancel return InvalidSession whenever the session's
\* (slot, id) does not match an Active slot of the manager with the same id,
\* and then the manager's slots and controller are as they were.
C9_InvalidSessionOnMismatch ==
    (Ended /\ ~Matches(result.before, result.session[1])) =>
        (/\ result.status = "InvalidSession"
         /\ Seen(mgr[result.m]) = result.before)

C11_EndedHandleNeverValid ==
    \A m \in Mgrs : mgr[m].exists => \A h \in ended[m] : ~is_valid(mgr[m], h)

\* C12: what ctx_mut() hands out for an allocated session is the context it
\* handed out the last time that session was active, with what was written
\* through it then, whatever was switched to and written in between.
C12_SessionContextPreserved ==
    (pcall.op = "ctx_mut" /\ IsSome(pcall.expected)) => hw = pcall.expected[1]

C12_SwitchedBackToOwnPattern ==
    /\ pcall.op = "ctx_mut"
    /\ IsSome(pcall.expected)
    /\ pcall.obeyed
    /\ pcall.before[1].provider.allocated[0]
    /\ pcall.before[1].provider.allocated[1]
    /\ pcall.before[1].provider.last_loaded = Some(1)
    /\ pcall.id = Some(0)
    /\ pcall.before[1].hw.bufcnt = 99
    /\ pcall.before[1].hw.buffer = <<204, 221>>
    /\ hw.bufcnt = 42
    /\ hw.buffer = <<170, 187>>

\* C13: a ctx_mut() made while the active session is the resident one
\* (last_loaded = Some(active_id)) copies nothing: the provider with all its
\* stored slots and the hardware context are as before the call.
C13_ResidentSessionNoCopy ==
    (/\ pcall.op = "ctx_mut"
     /\ pcall.before[1].provider.last_loaded = Some(pcall.before[1].provider.active_id)) =>
        (/\ prov[1] = pcall.before[1].provider
         /\ hw = pcall.before[1].hw)

C13_SecondCallOfSameSession ==
    /\ pcall.op = "ctx_mut"
    /\ pcall.before[1].provider.last_loaded = Some(1)
    /\ pcall.before[1].provider.active_id = 1
    /\ pcall.before[1].provider.allocated[0]
    /\ pcall.before[1].provider.allocated[1]
    /\ pcall.before[1].provider.contexts[0][1].bufcnt = 42
    /\ pcall.before[1].provider.contexts[1][1].bufcnt = 0
    /\ hw.bufcnt = 99

C15_SwitchFailureReported ==
    pcall.op = "ctx_mut" =>
        /\ pcall.before[1].provider.active_id >= pcall.before[1].provider.max_sessions
               => pcall.status = "SessionOutOfBounds"
        /\ (/\ pcall.before[1].provider.active_id < pcall.before[1].provider.max_sessions
            /\ ~is_session_allocated(pcall.before[1].provider,
                                     pcall.before[1].provider.active_id))
               => pcall.status = "SessionNotAllocated"

\* C16: as long as set_active_session has only been given allocated ids, the
\* save and the load inside ctx_mut() return no error, and at every ctx_mut()
\* active_id and last_loaded (if any) name allocated slots.
C16_SwitchNeverFails ==
    (pcall.op = "ctx_mut" /\ pcall.obeyed) =>
        /\ pcall.save \in {None, Some("Ok")}
        /\ pcall.load \in {None, Some("Ok")}
        /\ is_session_allocated(pcall.before[1].provider,
                                pcall.before[1].provider.active_id)
        /\ IsSome(pcall.before[1].provider.last_loaded) =>
               is_session_allocated(pcall.before[1].provider,
                                    pcall.before[1].provider.last_loaded[1])

\* C17: allocate_session returns the lowest id below max_sessions that is not
\* allocated and marks it allocated, changing no other slot's allocation; it
\* fails exactly when all max_sessions slots are allocated; after
\* release_session(id) the id is not allocated and an allocate_session made
\* now returns it if every lower slot is allocated.
C17_LowestFreeSlot ==
    /\ pcall.op = "allocate_session" =>
          LET b == pcall.before[1].provider
              free == {i \in SlotIds : i < b.max_sessions /\ ~b.allocated[i]}
          IN /\ pcall.status = "SessionError" <=> free = {}
             /\ free = {} => (pcall.id = None /\ prov[1] = b)
             /\ free # {} =>
                   /\ IsSome(pcall.id)
                   /\ pcall.id[1] \in free
                   /\ \A j \in free : pcall.id[1] <= j
                   /\ prov[1].allocated = [b.allocated EXCEPT ![pcall.id[1]] = TRUE]
                   /\ is_session_allocated(prov[1], pcall.id[1])
    /\ pcall.op = "release_session" =>
          /\ ~is_session_allocated(prov[1], pcall.id[1])
          /\ (/\ is_session_allocated(pcall.before[1].provider, pcall.id[1])
              /\ \A j \in 0..(pcall.id[1] - 1) : prov[1].allocated[j]) =>
                 allocate_session(prov[1]).id = pcall.id

C17_ReleasedSlotGivenAgain ==
    /\ pcall.op = "allocate_session"
    /\ pcall.id = Some(0)
    /\ IsSome(pcall.before[1].provider.contexts[0])
    /\ pcall.before[1].provider.max_sessions = 2
    /\ pcall.before[1].provider.allocated[1]
    /\ allocate_session(prov[1]).id = None

\* C18: the first ctx_mut() of a session allocated in a slot from which an
\* earlier session was released hands out the default (all-zero) context.
C18_ReusedSlotStartsClean ==
    (pcall.op = "ctx_mut" /\ pcall.first_reused) => hw = DefaultCtx

\* C19: SessionManager::<N>::new returns Ok for every N in 1..MAX_SESSIONS and
\* InvalidSessionCount exactly when N is 0 or greater than MAX_SESSIONS.
C19_NewAcceptsUpToMaxSessions ==
    (result.op = "new" /\ IsSome(result.n)) =>
        /\ result.n[1] \in 1..MAX_SESSIONS => result.status = "Ok"
        /\ result.status = "InvalidSessionCount"
               <=> (result.n[1] = 0 \/ result.n[1] > MAX_SESSIONS)

\* C20: after a successful init and after every update of a digest context,
\* bufcnt < block_size holds in the context.
C20_BufcntBelowBlockSize ==
    ((result.op = "init" /\ result.status = "Ok") \/ result.op = "update") =>
        hw.bufcnt < hw.block_size

C20_BlockHashedRemainderBuffered ==
    /\ result.op = "update"
    /\ result.algo = Some("SHA256")
    /\ result.session[1].fed = <<<<1, 2, 3>>, Rep(4, 64)>>
    /\ hw.bufcnt = 3
    /\ hw.buffer = <<4, 4, 4>>
    /\ hw.digest.absorbed = <<1, 2, 3>> \o Rep(4, 61)

\* a < b for two unsigned integers of one width in big-endian bytes
RECURSIVE LessBE(_, _)
LessBE(a, b) ==
    IF a = <<>> THEN FALSE
    ELSE IF a[1] # b[1] THEN a[1] < b[1]
    ELSE LessBE(Tail(a), Tail(b))

\* C21: after init and any sequence of updates, digcnt[1] * 2^64 + digcnt[0] is
\* the number of bytes passed to update, and an update adds one to digcnt[1]
\* exactly when adding its input length takes digcnt[0] past 2^64 (digcnt[0]
\* comes out smaller than it was), and leaves digcnt[1] alone otherwise.
C21_DigcntCountsInputBytes ==
    (ocall.op = "update") =>
        /\ hw.digcnt[2] \o hw.digcnt[1] = ocall.total
        /\ hw.digcnt[2] = IF LessBE(hw.digcnt[1], ocall.before[1].digcnt[1])
                          THEN AddBE(ocall.before[1].digcnt[2], 1).sum
                          ELSE ocall.before[1].digcnt[2]

\* An update of 130 bytes at 2^64 - 128 has carried into digcnt[1].
C21_CarriedIntoHighWord ==
    /\ ocall.op = "update"
    /\ Len(ocall.data) = 130
    /\ ocall.before[1].digcnt = <<NearWrap, U64Of(0)>>
    /\ hw.digcnt = <<U64Of(2), U64Of(1)>>

\* C22: an owned update with input length L and b bytes buffered, b + L below
\* the block size, hands nothing to the engine and leaves bufcnt = b + L with
\* the input appended to the buffer; otherwise the engine is handed the b
\* buffered bytes and the first bytes of the input, (b + L) - ((b + L) mod
\* block_size) bytes in all, named by the descriptors of one operation, a
\* positive multiple of the block size, and bufcnt = (b + L) mod block_size
\* with the last bufcnt bytes of the input at the start of the buffer.
C22_UpdateBuffersOrDispatchesBlocks ==
    (ocall.op = "update") =>
        LET old == ocall.before[1]
            b == old.bufcnt
            L == Len(ocall.data)
            bs == old.block_size
            rest == (b + L) % bs
            sent == (b + L) - rest
        IN IF b + L < bs
           THEN /\ hw.digest = old.digest
                /\ hw.bufcnt = b + L
                /\ BufRead(hw.buffer, 0, b + L) = BufRead(old.buffer, 0, b) \o ocall.data
           ELSE /\ sent > 0
                /\ sent % bs = 0
                /\ hw.digest.absorbed =
                       old.digest.absorbed \o BufRead(old.buffer, 0, b)
                                           \o SubSeq(ocall.data, 1, sent - b)
                /\ IF hw.sg[1].last THEN hw.sg[1].len = sent
                   ELSE hw.sg[2].last /\ hw.sg[1].len + hw.sg[2].len = sent
                /\ hw.bufcnt = rest
                /\ BufRead(hw.buffer, 0, rest) = SubSeq(ocall.data, L - rest + 1, L)

\* 130 bytes given to a SHA-256 computation with 55 bytes buffered: two blocks
\* are hashed and 57 bytes are left.
C22_TwoBlocksWithPendingBytes ==
    /\ ocall.op = "update"
    /\ ocall.before[1].block_size = 64
    /\ ocall.before[1].bufcnt = 55
    /\ Len(ocall.data) = 130
    /\ Len(hw.digest.absorbed) = Len(ocall.before[1].digest.absorbed) + 128
    /\ hw.bufcnt = 57

\* The output of init; update(msg); finalize on a never-used controller.
OneShot(algo, msg) == Owned_finalize(Owned_update(Owned_init(NeverUsed, algo), msg)).output

\* C23: whatever pieces (empty ones included) a message m was passed to update
\* in, the bytes the engine was handed between init and the end of finalize are
\* m padded as the algorithm prescribes, and the output of finalize is the
\* output of init; update(m); finalize.
C23_SplitsGiveTheDigestOfTheWhole ==
    (ocall.op = "finalize") =>
        /\ ocall.output[1].value.absorbed = RefPad(ocall.algo[1], ocall.msg)
        /\ ocall.output[1] = OneShot(ocall.algo[1], ocall.msg)

\* A SHA-256 message of 185 bytes passed in three pieces, one of them empty.
C23_ThreePiecesOneEmpty ==
    /\ ocall.op = "finalize"
    /\ ocall.algo = Some("SHA256")
    /\ ocall.updates = 3
    /\ ocall.inits = 1
    /\ Len(ocall.msg) = 185
    /\ ocall.output[1] = OneShot("SHA256", ocall.msg)

\* C24: fill_padding started with bufcnt = c below the block size keeps the c
\* pending bytes, writes 0x80 at buffer[c], then zeros, then the length field
\* in its 8 (64-byte blocks) or 16 (128-byte blocks) last bytes, and leaves
\* bufcnt at the smallest multiple of the block size that is at least
\* c + 1 + the size of the length field; that is two blocks exactly when
\* c >= block size - size of the length field, and nothing is written past the
\* 256 bytes of the buffer.
C24_PaddingFillsToBlockBoundary ==
    (ocall.op = "finalize") =>
        LET old == ocall.before[1]
            new == ocall.padded[1]
            c == old.bufcnt
            bs == old.block_size
            lf == IF bs = 64 THEN 8 ELSE 16
            n == ((c + 1 + lf + bs - 1) \div bs) * bs
        IN /\ c < bs
           /\ new.bufcnt = n
           /\ (n = 2 * bs) <=> (c >= bs - lf)
           /\ n \in {bs, 2 * bs}
           /\ BufRead(new.buffer, 0, c) = BufRead(old.buffer, 0, c)
           /\ BufRead(new.buffer, c, n - lf - c) = <<128>> \o Rep(0, n - lf - c - 1)
           /\ BufRead(new.buffer, n - lf, lf) = SubSeq(Shl3BE(ocall.total).val, 17 - lf, 16)
           /\ n <= BUFFER_SIZE
           /\ Len(new.buffer) <= n

\* A finalize with 56 bytes pending in a 64-byte block: the padding takes a
\* second block.
C24_LengthFieldInSecondBlock ==
    /\ ocall.op = "finalize"
    /\ ocall.before[1].block_size = 64
    /\ ocall.before[1].bufcnt = 56
    /\ ocall.padded[1].bufcnt = 128
    /\ BufRead(ocall.padded[1].buffer, 56, 72) = <<128>> \o Rep(0, 69) \o <<1, 192>>

\* C25: the length field fill_padding writes is 8 times the number of bytes
\* passed to update: with 128-byte blocks the 128-bit product, whose high word
\* is (digcnt[1] << 3) | (digcnt[0] >> 61) and whose low word is digcnt[0] << 3,
\* and with 64-byte blocks its low 64 bits, digcnt[0] << 3.
C25_LengthFieldIsBitCount ==
    (ocall.op = "finalize") =>
        LET old == ocall.before[1]
            new == ocall.padded[1]
            lf == IF old.block_size = 64 THEN 8 ELSE 16
            field == BufRead(new.buffer, new.bufcnt - lf, lf)
            low == Shl3BE(old.digcnt[1])
        IN /\ field = SubSeq(Shl3BE(ocall.total).val, 17 - lf, 16)
           /\ SubSeq(field, lf - 7, lf) = low.val
           /\ lf = 16 => SubSeq(field, 1, 8) = AddBE(Shl3BE(old.digcnt[2]).val, low.out).sum

\* A SHA-512 computation finalized after 2^64 + 2 bytes: the field is
\* 2^67 + 16, with the bit 2^67 carried from the low word of the count.
C25_BitsCarriedIntoHighWord ==
    /\ ocall.op = "finalize"
    /\ ocall.algo = Some("SHA512")
    /\ ocall.before[1].digcnt = <<U64Of(2), U64Of(1)>>
    /\ BufRead(ocall.padded[1].buffer, 112, 16) = U64Of(8) \o U64Of(16)

\* C26: a computation started on a controller recovered from finalize or
\* cancel starts with no pending bytes, a zero count and the initialization
\* vector, and its finalize returns the digest of its own message: the output
\* of init; update(m); finalize on a never-used controller.
C26_RecoveredControllerStartsAfresh ==
    (ocall.prior \in {"finalize", "cancel"}) =>
        /\ (ocall.op = "init") =>
               /\ hw.bufcnt = 0
               /\ hw.digcnt = <<U64Of(0), U64Of(0)>>
               /\ hw.digest = [iv |-> ocall.algo[1], absorbed |-> <<>>, cmds |-> {}]
        /\ (ocall.op = "finalize") =>
               /\ ocall.output[1].value = RefDigest(ocall.algo[1], ocall.msg)
               /\ ocall.output[1] = OneShot(ocall.algo[1], ocall.msg)

\* A message finalized on a controller recovered by cancel from a computation
\* that had been given bytes.
C26_DigestAfterCancelledComputation ==
    /\ ocall.op = "finalize"
    /\ ocall.prior = "cancel"
    /\ ocall.earlier > 0
    /\ Len(ocall.msg) > 0
    /\ ocall.output[1] = OneShot(ocall.algo[1], ocall.msg)

\* A context without its scatter-gather descriptors.
WithoutSg(ctx) == [ctx EXCEPT !.sg = <<ZeroSg, ZeroSg>>]

C28_InitLeavesCleanContext ==
    (ocall.op = "init") =>
        /\ hw.method = hash_cmd(ocall.algo[1])
        /\ hw.digest = [iv |-> ocall.algo[1], absorbed |-> <<>>, cmds |-> {}]
        /\ hw.block_size = block_size(ocall.algo[1])
        /\ hw.bufcnt = 0
        /\ hw.digcnt = <<U64Of(0), U64Of(0)>>
        /\ hw.buffer = <<>>

\* The bits of a byte that are set, and the byte of a set of bits.
BitsOf(a) == {i \in 0..7 : (a \div (2 ^ i)) % 2 = 1}

ByteOf(S) ==
    (IF 0 \in S THEN 1 ELSE 0) + (IF 1 \in S THEN 2 ELSE 0) + (IF 2 \in S THEN 4 ELSE 0)
    + (IF 3 \in S THEN 8 ELSE 0) + (IF 4 \in S THEN 16 ELSE 0) + (IF 5 \in S THEN 32 ELSE 0)
    + (IF 6 \in S THEN 64 ELSE 0) + (IF 7 \in S THEN 128 ELSE 0)

\* a XOR b: the bits set in exactly one of a and b
XorOf(a, b) == ByteOf((BitsOf(a) \ BitsOf(b)) \cup (BitsOf(b) \ BitsOf(a)))

\* C29: a MAC init with a key K no longer than the block size succeeds and
\* leaves, for every i below the block size, ipad[i] = K'[i] XOR 0x36 and
\* opad[i] = K'[i] XOR 0x5c, where K' is K followed by zeros.
C29_PadsAreKeyXorConstants ==
    (/\ ocall.op \in {"mac_init", "setup_context"}
     /\ Len(ocall.data) <= block_size(ocall.algo[1])) =>
        /\ ocall.status = "Ok"
        /\ \A i \in 1..block_size(ocall.algo[1]) :
              LET Ki == IF i <= Len(ocall.data) THEN ocall.data[i] ELSE 0
              IN /\ BufRead(hw.ipad, i - 1, 1) = <<XorOf(Ki, 54)>>
                 /\ BufRead(hw.opad, i - 1, 1) = <<XorOf(Ki, 92)>>

\* HMAC-SHA-256 with a 32-byte key that starts with the byte 3: the pads start
\* with 3 XOR 0x36 = 0x35 and 3 XOR 0x5c = 0x5f and end with the constants.
C29_ShortKeyPaddedWithConstants ==
    /\ ocall.op = "mac_init"
    /\ ocall.algo = Some("SHA256")
    /\ Len(ocall.data) = 32
    /\ ocall.data[1] = 3
    /\ BufRead(hw.ipad, 0, 1) = <<53>>
    /\ BufRead(hw.opad, 0, 1) = <<95>>
    /\ BufRead(hw.ipad, 32, 32) = Rep(54, 32)
    /\ BufRead(hw.opad, 32, 32) = Rep(92, 32)

\* The pads that a MAC init derives from the key k: every byte of k, followed
\* by zeros up to the block size, XORed with 0x36 (ipad) and 0x5c (opad).
PadsOfKey(k) ==
    /\ ocall.status = "Ok"
    /\ \A i \in 1..block_size(ocall.algo[1]) :
          LET Ki == IF i <= Len(k) THEN k[i] ELSE 0
          IN /\ BufRead(hw.ipad, i - 1, 1) = <<XorOf(Ki, 54)>>
             /\ BufRead(hw.opad, i - 1, 1) = <<XorOf(Ki, 92)>>

\* C30: a MAC init with a key longer than the block size of the algorithm
\* succeeds and builds the pads from the digest of the key; a MAC init with a
\* key of exactly the block size builds them from the key itself.
C30_LongKeyHashedFirst ==
    (ocall.op \in {"mac_init", "setup_context"}) =>
        /\ (Len(ocall.data) > block_size(ocall.algo[1])) =>
               PadsOfKey(DigestBytes(ocall.algo[1], ocall.data))
        /\ (Len(ocall.data) = block_size(ocall.algo[1])) =>
               PadsOfKey(ocall.data)

\* The length of n message bytes with the 0x80 byte, the zeros and the length
\* field of the algorithm: the least multiple of the block size that holds them.
PaddedLen(n, bs) ==
    LET Need(field) == n + 1 + field
        Blocks(need) == (need + bs - 1) \div bs
    IN bs * Blocks(Need(IF bs = 64 THEN 8 ELSE 16))

\* C31: a MAC update whose ipad || input, padded, does not fit the 256-byte
\* buffer returns InvalidInputLength, dispatches nothing and leaves the digest
\* accumulator as it was.
C31_OversizeMacInputRejected ==
    (/\ ocall.op = "mac_update"
     /\ PaddedLen(block_size(ocall.algo[1]) + Len(ocall.data), block_size(ocall.algo[1]))
           > BUFFER_SIZE) =>
        /\ ocall.status = "InvalidInputLength"
        /\ ocall.log = <<>>
        /\ hw.digest = ocall.before[1].digest

\* msg followed by 0x80, zeros and the big-endian bit count of msg, up to the
\* next block boundary.
MdPad(msg, bs) ==
    LET Field(w) == BEBytes(8 * Len(msg), w)
        Zeros(w) == Rep(0, PaddedLen(Len(msg), bs) - Len(msg) - 1 - w)
        Padded(w) == msg \o <<128>> \o Zeros(w) \o Field(w)
    IN Padded(IF bs = 64 THEN 8 ELSE 16)

\* The key k followed by zeros up to the block size, every byte XORed with c.
KeyPad(k, c, bs) == [i \in 1..bs |-> XorOf(IF i <= Len(k) THEN k[i] ELSE 0, c)]

\* The digest accumulator after copy_iv_to_digest.
Seeded(algo) == [iv |-> algo, absorbed |-> <<>>, cmds |-> {}]

\* C32: a MAC update that returns Ok has dispatched exactly twice: first the
\* padded ipad || input from the initialization vector with scatter-gather
\* mode off, then the padded opad || inner digest from the initialization
\* vector again; the accumulator holds the result of the second dispatch, and
\* a finalize that follows returns it.
C32_InnerThenOuterDispatch ==
    LET algo == ocall.algo[1]
        bs == block_size(ocall.algo[1])
        Inner == MdPad(KeyPad(ocall.key, 54, bs) \o ocall.msg, bs)
        Outer == MdPad(KeyPad(ocall.key, 92, bs) \o DigestBytes(algo, Inner), bs)
    IN /\ (ocall.op = "mac_update" /\ ocall.status = "Ok") =>
              /\ Len(ocall.log) = 2
              /\ ocall.log[1].seed = Seeded(algo)
              /\ (ocall.log[1].method \div HACE_SG_EN) % 2 = 0
              /\ ocall.log[1].len = Len(Inner)
              /\ ocall.log[1].bytes = Inner
              /\ ocall.log[2].seed = Seeded(algo)
              /\ ocall.log[2].len = Len(Outer)
              /\ ocall.log[2].bytes = Outer
              /\ hw.digest = [iv |-> algo, absorbed |-> Outer,
                              cmds |-> {ocall.log[2].method}]
       /\ (ocall.op = "mac_finalize" /\ ocall.log # <<>>) =>
              /\ ocall.output[1].len = digest_size(algo)
              /\ ocall.output[1].value.iv = algo
              /\ ocall.output[1].value.absorbed = Outer

\* HMAC-SHA-256 of a 3-byte input, finalized: both dispatches were of 128 bytes.
C32_FinalizedAfterTwoDispatches ==
    /\ ocall.op = "mac_finalize"
    /\ ocall.algo = Some("SHA256")
    /\ Len(ocall.msg) = 3
    /\ Len(ocall.log) = 2
    /\ ocall.log[1].len = 128
    /\ ocall.log[2].len = 128
    /\ ocall.log[1].bytes # ocall.log[2].bytes
    /\ Len(ocall.output[1].value.absorbed) = 128

\* C33: in the scoped API every update leaves bufcnt = (old bufcnt + input
\* length) mod block_size, and a finalize hands the engine, in all, the
\* message with its padding and nothing else.
C33_ScopedBufcntIsRemainder ==
    /\ (ocall.op = "update") =>
           hw.bufcnt = (ocall.before[1].bufcnt + Len(ocall.data)) % hw.block_size
    /\ (ocall.op = "finalize") =>
           ocall.output[1].value.absorbed
               = MdPad(ocall.msg, block_size(ocall.algo[1]))

\* The descriptors the engine reads: up to the first one flagged last.
InUse(sg) == IF sg[1].last THEN <<sg[1]>> ELSE <<sg[1], sg[2]>>

\* C34: at the dispatch of an update the descriptors in use have lengths that
\* sum to the dispatched length total_len and the last of them, and no other,
\* is flagged last; with pending bytes descriptor 0 covers the bufcnt bytes
\* of the buffer and descriptor 1 the first total_len - bufcnt bytes of the
\* input. At the dispatch of a finalize the one descriptor covers the padded
\* buffer and is flagged last.
C34_DescriptorsCoverTheDispatch ==
    LET Total(b) == (b.bufcnt + Len(ocall.data))
                        - ((b.bufcnt + Len(ocall.data)) % b.block_size)
        SumLen(ds) == IF Len(ds) = 1 THEN ds[1].len ELSE ds[1].len + ds[2].len
        Covered(ds, len) ==
            /\ SumLen(ds) = len
            /\ ds[Len(ds)].last
            /\ \A j \in 1..(Len(ds) - 1) : ~ds[j].last
        AtUpdate(b) ==
            (b.bufcnt + Len(ocall.data) >= b.block_size) =>
                /\ Covered(InUse(hw.sg), Total(b))
                /\ (b.bufcnt # 0) =>
                       /\ hw.sg[1] = [addr |-> "buffer", len |-> b.bufcnt, last |-> FALSE]
                       /\ hw.sg[2] = [addr |-> "data", len |-> Total(b) - b.bufcnt,
                                      last |-> TRUE]
                /\ (b.bufcnt = 0) =>
                       hw.sg[1] = [addr |-> "data", len |-> Total(b), last |-> TRUE]
    IN /\ (ocall.op = "update") => AtUpdate(ocall.before[1])
       /\ (ocall.op = "finalize") =>
              /\ Len(ocall.log) = 1
              /\ ocall.log[1].len = ocall.padded[1].bufcnt
              /\ Covered(InUse(ocall.log[1].sg), ocall.log[1].len)
              /\ ocall.log[1].sg[1] = [addr |-> "buffer", len |-> ocall.log[1].len,
                                        last |-> TRUE]

\* SHA-256: 55 bytes pending and 56 more given: one block is dispatched, 55
\* bytes from the buffer and 9 from the input.
C34_BufferThenInput ==
    /\ ocall.op = "update"
    /\ ocall.before[1].block_size = 64
    /\ ocall.before[1].bufcnt = 55
    /\ Len(ocall.data) = 56
    /\ hw.sg[1] = [addr |-> "buffer", len |-> 55, last |-> FALSE]
    /\ hw.sg[2] = [addr |-> "data", len |-> 9, last |-> TRUE]
    /\ hw.bufcnt = 47

\* C35: between init and finalize fewer bytes are pending than a block holds,
\* so an update that dispatches with pending bytes has total_len > bufcnt: it
\* never points descriptor 0 at the input, and it uses two descriptors.
C35_PendingDispatchUsesTwoDescriptors ==
    LET Total(b) == (b.bufcnt + Len(ocall.data))
                        - ((b.bufcnt + Len(ocall.data)) % b.block_size)
        Dispatched(b) ==
            (b.bufcnt # 0 /\ b.bufcnt + Len(ocall.data) >= b.block_size) =>
                /\ Total(b) > b.bufcnt
                /\ hw.sg[1].addr = "buffer"
                /\ ~hw.sg[1].last
                /\ hw.sg[2].addr = "data"
                /\ hw.sg[2].last
    IN /\ (owned.holds = "digest") => hw.bufcnt < hw.block_size
       /\ (ocall.op = "update") => Dispatched(ocall.before[1])

\* SHA-512: 56 bytes pending and 130 more given: one 128-byte block goes out
\* through two descriptors.
C35_TwoDescriptorsForOneBlock ==
    /\ ocall.op = "update"
    /\ ocall.before[1].block_size = 128
    /\ ocall.before[1].bufcnt = 56
    /\ Len(ocall.data) = 130
    /\ hw.sg[1].len = 56
    /\ ~hw.sg[1].last
    /\ hw.sg[2].len = 72
    /\ hw.sg[2].last
    /\ hw.bufcnt = 58

\* The order in which start_hash_operation writes the registers.
RegisterOrder == <<"hace1c", "hace1c", "hace20", "hace24", "hace28", "hace2c", "hace30">>

\* C36: start_hash_operation clears the completion flag first, then writes the
\* source, digest and length registers, and the command register last; the
\* source is the descriptor list when the scatter-gather bit of method is set
\* and the buffer otherwise; the flag stays clear until the command is
\* written; and when the call has returned the engine has completed the
\* operation: the flag is set and the digest is that of the whole dispatch.
C36_FlagClearedCommandLastWaitForFlag ==
    /\ Len(hace.writes) <= Len(RegisterOrder)
    /\ hace.writes = SubSeq(RegisterOrder, 1, Len(hace.writes))
    /\ (Len(hace.writes) >= 3) =>
           hace.src = (IF (hw.method \div HACE_SG_EN) % 2 = 1 THEN "sg" ELSE "buffer")
    /\ (Len(hace.writes) \in 1..6) => (~hace.intflag /\ ~hace.busy)
    /\ hace.busy => Len(hace.writes) = 7
    /\ (hace.pc = "idle" /\ hace.calls > 0) =>
           /\ ~hace.busy
           /\ hace.seen = hace.expect
           /\ (hace.writes # <<>>) => (hace.intflag /\ hace.writes = RegisterOrder)

\* A MAC update has returned after a digest call: its second dispatch read
\* the buffer, and the digest read after the wait is the one expected.
C36_MacUpdateReturned ==
    /\ hace.pc = "idle"
    /\ hace.calls = 2
    /\ hace.kind = "mac_update"
    /\ hace.src = "buffer"
    /\ hace.writes = RegisterOrder
    /\ hace.intflag
    /\ hace.seen = hace.expect
    /\ hace.seen # None

\* C37: when the engine completes every operation it is given, every call
\* that reaches start_hash_operation returns; the wait is left only on a set
\* completion flag, and the call is never anywhere but in start_hash_operation
\* or back at its caller (there is no time-out and no error exit).
C37_CallsReturnIfEngineCompletes ==
    /\ (hace.pc # "idle") ~> (hace.pc = "idle")
    /\ [][(hace.pc = "wait" /\ hace'.pc # "wait") => hace.intflag]_vars
    /\ [](hace.pc \in {"idle", "clear", "clear2", "src", "dst", "key", "len", "cmd", "wait"})

\* A finalize waits for the engine, which has not yet completed.
C37_FinalizeWaiting ==
    /\ hace.pc = "wait"
    /\ hace.kind = "finalize"
    /\ hace.busy
    /\ ~hace.intflag

\* The providers made for manager m, wherever their controller is now: in a
\* manager's controller field or inside a live session.
ProvidersOf(m) ==
    {mgr[x].controller[1].provider :
        x \in {y \in Mgrs : IsSome(mgr[y].controller) /\ mgr[y].controller[1].owner = m}}
    \cup {sess[c][1].context.controller.provider : c \in LiveOf(m)}

\* C38: in every reachable state, slot i of a manager is Active exactly when
\* slot i of that manager's provider is allocated, and every live session has
\* slot = provider_session_id.
C38_ManagerAndProviderSlotsAgree ==
    /\ \A m \in Mgrs : mgr[m].exists =>
          \A i \in DOMAIN mgr[m].sessions :
              (mgr[m].sessions[i].state = "Active")
                  <=> (\E p \in ProvidersOf(m) : is_session_allocated(p, i))
    /\ \A c \in Callers : IsSome(sess[c]) => sess[c][1].slot = sess[c][1].provider_session_id

\* C39: an init_* call that returns an error leaves the manager as it was:
\* the slots (and so active_count), the generation counter, the controller
\* with its provider if the manager holds it, and every session the caller
\* holds, with the controller and provider inside it.
C39_FailedInitChangesNothing ==
    [][(result'.op = "init" /\ result'.status # "Ok")
          => /\ mgr' = mgr
             /\ sess' = sess
             /\ \A m \in Mgrs : active_count(mgr'[m]) = active_count(mgr[m])]_vars

\* An init_* has returned ControllerInUse: the manager has a free slot, and
\* its controller is inside the session that is live.
C39_InitRefusedWhileSessionLive ==
    /\ result.op = "init"
    /\ result.status = "ControllerInUse"
    /\ mgr[result.m].controller = None
    /\ FreePosition(mgr[result.m]) # None
    /\ LiveOf(result.m) # {}

\* The context a MAC update leaves when it is given the context that the
\* update before it was given.
UpdateAlone == Mac_update([ctrl |-> owned.controller, hw |-> ocall.before[1]], ocall'.data).k.hw

\* What a MAC computation reads of a context: everything but the bytes of the
\* buffer from bufcnt on.
LivePart(c) == [c EXCEPT !.buffer = BufRead(c.buffer, 0, c.bufcnt)]

\* The step is an update of a MAC context that follows another one.
SecondMacUpdate ==
    /\ ocall.op = "mac_update"
    /\ ocall.status = "Ok"
    /\ ocall'.op = "mac_update"
    /\ ocall'.status = "Ok"
    /\ ocall'.updates = ocall.updates + 1

\* C40, as stated: update(a) followed by update(b) leaves the same digest and
\* the same context, byte for byte, as update(b) alone.
C40_SecondUpdateLeavesSameContext ==
    [][SecondMacUpdate => hw' = UpdateAlone]_vars

\* C40, amended: update(a) followed by update(b) leaves the same digest, the
\* same counters, pads, key and command, and the same bufcnt bytes at the
\* front of the buffer as update(b) alone; the bytes of the buffer from
\* bufcnt on may be what update(a) left there.
C40_SecondUpdateLeavesSameLiveContext ==
    [][SecondMacUpdate
          => /\ LivePart(hw') = LivePart(UpdateAlone)
             /\ hw'.digest = UpdateAlone.digest
             /\ hw'.digcnt = UpdateAlone.digcnt
             /\ hw'.bufcnt = UpdateAlone.bufcnt
             /\ ocall'.log = Mac_update([ctrl |-> owned.controller, hw |-> ocall.before[1]],
                                        ocall'.data).log]_vars

\* An update has returned on a context that an update of another input had
\* left: the context before the call held a finished MAC, not this one.
C40_SecondUpdateOfOtherInput ==
    /\ ocall.op = "mac_update"
    /\ ocall.status = "Ok"
    /\ ocall.updates >= 2
    /\ ocall.before # None
    /\ ocall.before[1].bufcnt # 0
    /\ ocall.before[1].digest # hw.digest
    /\ ocall.before[1].digest.iv = hw.digest.iv

\* The state after init and finalize does not depend on how many sessions
\* went before, the counter aside.
AfterSessionRepeats ==
    \A n \in 1..MaxN :
        LET Once(r) == [M |-> [r.M EXCEPT !.next_id = U32Of(0)], hw |-> r.hw]
            Twice(r) == Once(AfterSession(r.M, r.hw))
        IN Twice(AfterSession(SessionManager_new("A", n)[1], DefaultCtx))
              = Once(AfterSession(SessionManager_new("A", n)[1], DefaultCtx))

====
